---- MODULE Spec2Model ----
(***************************************************************************)
(* Verification model of the amaze-frontend admin dashboards:              *)
(*   - src/components/dashboards/hr-dashboard.tsx        (HR attendance)   *)
(*   - src/components/dashboards/accounts-dashboard.tsx  (daily reports)   *)
(*   - src/lib/accounts.ts                               (report client)   *)
(*                                                                         *)
(* JavaScript strings are modelled as sequences of one-character strings,  *)
(* so that split / Number / padStart / toISOString / Date parsing are      *)
(* computed character by character, as the runtime computes them.          *)
(***************************************************************************)
EXTENDS Integers, Sequences, FiniteSets, TLC

VARIABLE page   \* the component that is mounted: "accounts", "hr", a view, or "none"

VARIABLES
    \* ---- attendance time conversion (pure functions, SpecTime) ----
    tDate,        \* the record / form date string
    tTime,        \* the typed "HH:MM" string
    tzOffset,     \* browser timezone offset east of UTC, in minutes
    tIsoModal,    \* result of the edit modal's timeToISO
    tIsoForm,     \* result of the manual form's getSubmissionDateTime(..).toISOString()
    tOut,         \* result of extractTimeForInput on the encoded instant
    tStored,      \* a stored checkin_time / checkout_time value to decode
    tShown,       \* result of formatTimeFromISO on the stored value
    tPc           \* "input" | "encoded" | "decoded", or
                  \* "stored" | "opened" | "saved" for a stored value

varsTime == <<tDate, tTime, tzOffset, tIsoModal, tIsoForm, tOut, tStored, tShown, tPc>>

VARIABLES
    \* ---- one client call in isolation (SpecApi) ----
    apiCall,      \* [fn, id] of the call being made, NoCall before the first
    apiOutcome,   \* outcome of its fetch, Null while awaiting
    apiResult,    \* what the call resolved with, Null while awaiting
    apiFetches,   \* the fetches the current call has issued
    apiCalls,     \* number of client calls made so far
    apiPc         \* "idle" | "awaiting" | "settled"

varsApi == <<apiCall, apiOutcome, apiResult, apiFetches, apiCalls, apiPc>>

VARIABLES
    server,              \* report ids the backend holds
    accNet,              \* requests in flight
    accFetches,          \* number of fetches issued by this dashboard
    accCalls,            \* number of client-function calls made by this dashboard
    reportHistory,       \* AccountantDashboard.reportHistory (ids)
    isLoading,           \* AccountantDashboard.isLoading
    editingReport,       \* AccountantDashboard.editingReport (0: null)
    activeTab,           \* AccountantDashboard.activeTab
    formData,            \* DailyReportUpload.formData
    uploadIsSubmitting,  \* DailyReportUpload.isSubmitting
    accToast,            \* title of the last toast raised
    fetchLog             \* history: the latest issued fetch that has succeeded so far
                         \* and the list it was answered with

varsAcc == <<server, accNet, accFetches, accCalls, reportHistory, isLoading, editingReport,
             activeTab, formData, uploadIsSubmitting, accToast, fetchLog>>

VARIABLES
    hrServer,             \* attendance record ids the backend holds
    hrNet,                \* requests in flight
    hrOps,                \* number of requests user actions have started
    staffs,               \* HRDashboard.staffs (ids)
    attendanceRecords,    \* HRDashboard.attendanceRecords (ids)
    isLoadingStaffs,
    isLoadingAttendance,
    selectedStaffId,      \* '' or a staff id as a string
    attendanceTime,
    attendanceDate,
    manualStatus,
    isSubmitting,
    submissionError,      \* Null or the message shown by SubmissionErrorModal
    editingRecord,        \* 0 (null) or the id of the record being edited
    modalGen,             \* number of AttendanceEditModal instances mounted so far
    fetchedRecord,        \* AttendanceEditModal.fetchedRecord (0: null)
    isLoadingDetails,
    checkInTime,
    checkOutTime,
    status,
    isSaving,
    hrToast               \* title or description of the last toast raised

varsHR == <<hrServer, hrNet, hrOps, staffs, attendanceRecords, isLoadingStaffs,
            isLoadingAttendance, selectedStaffId, attendanceTime, attendanceDate,
            manualStatus, isSubmitting, submissionError, editingRecord, modalGen,
            fetchedRecord, isLoadingDetails, checkInTime, checkOutTime, status, isSaving,
            hrToast>>

VARIABLES
    \* ---- DailyReportRegister (SpecRegister) ----
    reports,          \* the `reports` prop: the list the register is given
    dateFilter,       \* DailyReportRegister.dateFilter
    categoryFilter,   \* DailyReportRegister.categoryFilter
    filteredReports   \* the memoized filteredReports, as displayed

varsRegister == <<reports, dateFilter, categoryFilter, filteredReports>>

VARIABLES
    \* ---- the HR dashboard's attendance register (SpecAttendance) ----
    loadedRecords,    \* the attendanceRecords the register is rendered for
    timeZone,         \* the browser's offset from UTC in minutes (east positive)
    filterDate,       \* HRDashboard.filterDate
    filterStaffId,    \* HRDashboard.filterStaffId
    filterMonth,      \* HRDashboard.filterMonth
    registerData,     \* the memoized getComprehensiveAttendance
    groupedData,      \* AttendanceRegisterSection.groupedData, keys in insertion order
    sortedDates       \* AttendanceRegisterSection.sortedDates

varsAttendance ==
    <<loadedRecords, timeZone, filterDate, filterStaffId, filterMonth, registerData,
      groupedData, sortedDates>>

VARIABLES
    \* ---- the project list of the admin order tab (SpecOrders) ----
    orders,                  \* the `orders` prop
    localZone,               \* the browser's offset from UTC in minutes (east positive)
    searchTerm,              \* the `searchTerm` prop
    statusFilter,            \* OrderTabContent.statusFilter
    staffFilter,             \* OrderTabContent.staffFilter
    projectCategoryFilter,   \* OrderTabContent.categoryFilter
    fromDate,                \* OrderTabContent.fromDate
    toDate,                  \* OrderTabContent.toDate
    filteredOrders           \* the memoized filteredOrders

varsOrders ==
    <<orders, localZone, searchTerm, statusFilter, staffFilter, projectCategoryFilter,
      fromDate, toDate, filteredOrders>>

VARIABLES
    \* ---- the daily report form on its own (SpecUpload) ----
    uploadForm,       \* formData: the amount fields, the two totals, the category
    reportToEdit,     \* id of the report the form edits, 0 for none
    uploadPayload     \* the payload handleSubmit built, if it has
varsUpload == <<uploadForm, reportToEdit, uploadPayload>>

\* the list views and the report form, each on its own inputs
varsViews == <<varsRegister, varsAttendance, varsOrders, varsUpload>>

vars == <<page, varsTime, varsApi, varsAcc, varsHR, varsViews>>

\* everything outside one part of the model, for its UNCHANGED clauses
othersTime == <<page, varsApi, varsAcc, varsHR, varsViews>>

othersApi == <<page, varsTime, varsAcc, varsHR, varsViews>>

othersAcc == <<page, varsTime, varsApi, varsHR, varsViews>>

othersHR == <<page, varsTime, varsApi, varsAcc, varsViews>>

othersRegister ==
    <<page, varsTime, varsApi, varsAcc, varsHR, varsAttendance, varsOrders, varsUpload>>

othersAttendance ==
    <<page, varsTime, varsApi, varsAcc, varsHR, varsRegister, varsOrders, varsUpload>>

othersOrders ==
    <<page, varsTime, varsApi, varsAcc, varsHR, varsRegister, varsAttendance, varsUpload>>

othersUpload ==
    <<page, varsTime, varsApi, varsAcc, varsHR, varsRegister, varsAttendance, varsOrders>>

(***************************************************************************)
(* JavaScript values                                                       *)
(***************************************************************************)

\* null / undefined string value (distinct from every character sequence)
Null == <<"null">>

\* the value of an expression whose evaluation threw (RangeError: Invalid time value)
RangeError == <<"RangeError">>

\* the Number NaN (an integer outside every range the model computes with)
NaN == -2147483647

Digits == <<"0", "1", "2", "3", "4", "5", "6", "7", "8", "9">>

IsDigit(c) == \E i \in 1..10 : Digits[i] = c

DigitVal(c) == (CHOOSE i \in 1..10 : Digits[i] = c) - 1

\* JavaScript truthiness of a string-or-null value: !s
Falsy(s) == s = Null \/ s = <<>>

\* String.prototype.split(sep) for a one-character separator
RECURSIVE SplitFrom(_, _, _, _)
SplitFrom(s, sep, i, cur) ==
    IF i > Len(s) THEN <<cur>>
    ELSE IF s[i] = sep THEN <<cur>> \o SplitFrom(s, sep, i + 1, <<>>)
    ELSE SplitFrom(s, sep, i + 1, Append(cur, s[i]))

Split(s, sep) == SplitFrom(s, sep, 1, <<>>)

\* Number(string): the empty string is 0, a run of decimal digits is its value,
\* anything else (over the model's alphabet) is NaN
RECURSIVE DigitsValue(_, _)
DigitsValue(s, acc) ==
    IF s = <<>> THEN acc ELSE DigitsValue(Tail(s), acc * 10 + DigitVal(Head(s)))

Number(s) ==
    IF s = <<>> THEN 0
    ELSE IF \A i \in 1..Len(s) : IsDigit(s[i]) THEN DigitsValue(s, 0)
    ELSE NaN

\* parts.map(Number)[i], undefined (-> NaN in arithmetic and in Date.UTC) when absent
NumAt(parts, i) == IF i <= Len(parts) THEN Number(parts[i]) ELSE NaN

\* Number.prototype.toString() of a non-negative integer
RECURSIVE ToStr(_)
ToStr(n) == IF n < 10 THEN <<Digits[n + 1]>> ELSE ToStr(n \div 10) \o <<Digits[(n % 10) + 1]>>

\* String.prototype.padStart(len, '0')
RECURSIVE PadStart(_, _)
PadStart(s, len) == IF Len(s) >= len THEN s ELSE PadStart(<<"0">> \o s, len)

(***************************************************************************)
(* ECMAScript Date: a time value is [valid, day, ms] with                  *)
(* t = day * 86400000 + ms, 0 <= ms < 86400000 (kept split so that every   *)
(* quantity stays inside TLC's integers).                                  *)
(***************************************************************************)

InvalidDate == [valid |-> FALSE, day |-> 0, ms |-> 0]

IsLeap(y) == (y % 4 = 0 /\ y % 100 # 0) \/ y % 400 = 0

\* ECMAScript DayFromYear(y)
DayFromYear(y) ==
    365 * (y - 1970) + ((y - 1969) \div 4) - ((y - 1901) \div 100) + ((y - 1601) \div 400)

\* days before month mn (0-based) in a year
MonthStart(y, mn) ==
    LET cum == <<0, 31, 59, 90, 120, 151, 181, 212, 243, 273, 304, 334>>
    IN cum[mn + 1] + (IF mn >= 2 /\ IsLeap(y) THEN 1 ELSE 0)

DaysInMonth(y, m) ==
    IF m = 2 THEN (IF IsLeap(y) THEN 29 ELSE 28)
    ELSE IF m \in {4, 6, 9, 11} THEN 30 ELSE 31

\* ECMAScript MakeDay(year, month, date), month 0-based and possibly out of range
MakeDay(year, month, date) ==
    LET ym == year + (month \div 12)
        mn == month % 12
    IN DayFromYear(ym) + MonthStart(ym, mn) + date - 1

\* ECMAScript TimeClip: |t| <= 8.64e15 ms, i.e. 1e8 days
TimeClip(day, ms) ==
    IF (day >= -100000000 /\ day < 100000000) \/ (day = 100000000 /\ ms = 0)
    THEN [valid |-> TRUE, day |-> day, ms |-> ms]
    ELSE InvalidDate

\* Date.UTC(year, month, day, hours, minutes, seconds)
DateUTC(year, month, day, hours, minutes, seconds) ==
    IF NaN \in {year, month, day, hours, minutes, seconds} THEN InvalidDate
    ELSE LET yr   == IF year >= 0 /\ year <= 99 THEN 1900 + year ELSE year
             time == hours * 3600000 + minutes * 60000 + seconds * 1000
             d    == MakeDay(yr, month, day) + (time \div 86400000)
         IN TimeClip(d, time % 86400000)

\* calendar fields of a valid time value (YearFromTime, MonthFromTime, DateFromTime, ...)
Civil(tv) ==
    LET z    == tv.day + 719468
        era  == z \div 146097
        doe  == z - era * 146097
        yoe  == (doe - (doe \div 1460) + (doe \div 36524) - (doe \div 146096)) \div 365
        doy  == doe - (365 * yoe + (yoe \div 4) - (yoe \div 100))
        mp   == (5 * doy + 2) \div 153
        d    == doy - ((153 * mp + 2) \div 5) + 1
        m    == IF mp < 10 THEN mp + 3 ELSE mp - 9
        y    == yoe + era * 400 + (IF m <= 2 THEN 1 ELSE 0)
    IN [year |-> y, month |-> m, date |-> d,
        hours |-> tv.ms \div 3600000,
        minutes |-> (tv.ms \div 60000) % 60,
        seconds |-> (tv.ms \div 1000) % 60,
        millis |-> tv.ms % 1000]

\* Date.prototype.getUTCHours / getUTCMinutes
getUTCHours(tv) == Civil(tv).hours

getUTCMinutes(tv) == Civil(tv).minutes

\* Date.prototype.toISOString(): throws RangeError on an invalid date
toISOString(tv) ==
    IF ~tv.valid THEN RangeError
    ELSE LET c  == Civil(tv)
             ys == IF c.year >= 0 /\ c.year <= 9999 THEN PadStart(ToStr(c.year), 4)
                   ELSE IF c.year < 0 THEN <<"-">> \o PadStart(ToStr(-c.year), 6)
                   ELSE <<"+">> \o PadStart(ToStr(c.year), 6)
         IN ys \o <<"-">> \o PadStart(ToStr(c.month), 2) \o <<"-">> \o PadStart(ToStr(c.date), 2)
               \o <<"T">> \o PadStart(ToStr(c.hours), 2) \o <<":">> \o PadStart(ToStr(c.minutes), 2)
               \o <<":">> \o PadStart(ToStr(c.seconds), 2) \o <<".">> \o PadStart(ToStr(c.millis), 3)
               \o <<"Z">>

AllDigits(s) == s # <<>> /\ \A i \in 1..Len(s) : IsDigit(s[i])

\* new Date(string): the ECMAScript date-time string format
\* YYYY-MM-DDTHH:mm:ss.sssZ (and the date-only form YYYY-MM-DD, read as UTC);
\* any other string of the model's alphabet is an invalid date
ParseDate(s) ==
    LET dt    == Split(s, "T")
        dp    == Split(dt[1], "-")
        dateOk == Len(dp) = 3 /\ Len(dp[1]) = 4 /\ Len(dp[2]) = 2 /\ Len(dp[3]) = 2
                  /\ AllDigits(dp[1]) /\ AllDigits(dp[2]) /\ AllDigits(dp[3])
        y     == Number(dp[1])
        mo    == Number(dp[2])
        d     == Number(dp[3])
        rangeOk == mo >= 1 /\ mo <= 12 /\ d >= 1 /\ d <= DaysInMonth(y, mo)
        tz    == IF Len(dt) = 2 THEN dt[2] ELSE <<>>
        timeOk == Len(tz) = 13 /\ tz[3] = ":" /\ tz[6] = ":" /\ tz[9] = "." /\ tz[13] = "Z"
                  /\ AllDigits(SubSeq(tz, 1, 2)) /\ AllDigits(SubSeq(tz, 4, 5))
                  /\ AllDigits(SubSeq(tz, 7, 8)) /\ AllDigits(SubSeq(tz, 10, 12))
        h     == Number(SubSeq(tz, 1, 2))
        mi    == Number(SubSeq(tz, 4, 5))
        sec   == Number(SubSeq(tz, 7, 8))
        msec  == Number(SubSeq(tz, 10, 12))
    IN IF Len(dt) > 2 \/ ~dateOk THEN InvalidDate
       ELSE IF ~rangeOk THEN InvalidDate
       ELSE IF Len(dt) = 1
            THEN TimeClip(DayFromYear(y) + MonthStart(y, mo - 1) + d - 1, 0)
       ELSE IF ~timeOk \/ h > 23 \/ mi > 59 \/ sec > 59 THEN InvalidDate
       ELSE TimeClip(DayFromYear(y) + MonthStart(y, mo - 1) + d - 1,
                     h * 3600000 + mi * 60000 + sec * 1000 + msec)

(***************************************************************************)
(* Attendance time conversion (hr-dashboard.tsx)                           *)
(***************************************************************************)

\* x - 1 in JavaScript arithmetic (NaN - 1 is NaN)
MinusOne(x) == IF x = NaN THEN NaN ELSE x - 1

\* AttendanceEditModal.handleSave: timeToISO(time), recordDate from its closure
timeToISO(time, recordDate) ==
    IF Falsy(time) THEN Null
    ELSE LET hm  == Split(time, ":")
             ymd == Split(recordDate, "-")
         IN toISOString(DateUTC(NumAt(ymd, 1), MinusOne(NumAt(ymd, 2)), NumAt(ymd, 3),
                                NumAt(hm, 1), NumAt(hm, 2), 0))

\* an encoder that passes the month of the date string on as a month index
getSubmissionDateTimeMonth(dateString, timeString) ==
    LET ymd == Split(dateString, "-")
        hm  == Split(timeString, ":")
    IN DateUTC(NumAt(ymd, 1), NumAt(ymd, 2), NumAt(ymd, 3), NumAt(hm, 1), NumAt(hm, 2), 0)

\* HRDashboard.getSubmissionDateTime(dateString, timeString): a Date
getSubmissionDateTime(dateString, timeString) ==
    LET ymd == Split(dateString, "-")
        hm  == Split(timeString, ":")
    IN DateUTC(NumAt(ymd, 1), MinusOne(NumAt(ymd, 2)), NumAt(ymd, 3),
               NumAt(hm, 1), NumAt(hm, 2), 0)

\* a decoder that reads the browser-local hours and minutes (getHours/getMinutes)
extractTimeForInputLocal(isoString) ==
    IF Falsy(isoString) THEN <<>>
    ELSE LET date == ParseDate(isoString)
             loc  == (date.ms \div 60000) + tzOffset
         IN IF date.valid
            THEN PadStart(ToStr((loc \div 60) % 24), 2) \o <<":">> \o PadStart(ToStr(loc % 60), 2)
            ELSE <<>>

\* AttendanceEditModal.extractTimeForInput(isoString)
extractTimeForInput(isoString) ==
    IF Falsy(isoString) THEN <<>>
    ELSE LET date  == ParseDate(isoString)
             parts == Split(isoString, ":")
         IN IF date.valid
            THEN PadStart(ToStr(getUTCHours(date)), 2) \o <<":">>
                     \o PadStart(ToStr(getUTCMinutes(date)), 2)
            ELSE IF Len(parts) >= 2 THEN parts[1] \o <<":">> \o parts[2]
            ELSE <<>>

(***************************************************************************)
(* Inputs of the time conversion                                           *)
(***************************************************************************)

\* "YYYY-MM-DD" as an <input type="date"> yields it
DateString(y, m, d) ==
    PadStart(ToStr(y), 4) \o <<"-">> \o PadStart(ToStr(m), 2) \o <<"-">> \o PadStart(ToStr(d), 2)

\* "HH:MM" as an <input type="time"> yields it
TimeString(h, mi) == PadStart(ToStr(h), 2) \o <<":">> \o PadStart(ToStr(mi), 2)

SampleYears == {50, 1969, 2000, 2024, 9999}

SampleMonths == {1, 2, 3, 12}

SampleMinutes == {0, 9, 30, 59}

ValidDates ==
    {DateString(y, m, d) : y \in SampleYears, m \in SampleMonths, d \in {1, 28}}
    \cup {DateString(y, m, DaysInMonth(y, m)) : y \in SampleYears, m \in SampleMonths}

ValidTimes == {TimeString(h, mi) : h \in 0..23, mi \in SampleMinutes}

TzOffsets == {-300, 0, 330}

(***************************************************************************)
(* Encoding a typed date and time with both encoders, then decoding it.    *)
(***************************************************************************)

InitTime ==
    /\ tDate \in ValidDates
    /\ tTime \in ValidTimes
    /\ tzOffset \in TzOffsets
    /\ tIsoModal = Null
    /\ tIsoForm = Null
    /\ tOut = [modal |-> <<>>, form |-> <<>>]
    /\ tStored = Null
    /\ tShown = <<>>
    /\ tPc = "input"

\* no conversion under way
IdleTime ==
    /\ tDate = <<>>
    /\ tTime = <<>>
    /\ tzOffset = 0
    /\ tIsoModal = Null
    /\ tIsoForm = Null
    /\ tOut = [modal |-> <<>>, form |-> <<>>]
    /\ tStored = Null
    /\ tShown = <<>>
    /\ tPc = "off"

\* handleSave's timeToISO and the manual form's getSubmissionDateTime(..).toISOString()
EncodeTime ==
    /\ tPc = "input"
    /\ tIsoModal' = timeToISO(tTime, tDate)
    /\ tIsoForm' = toISOString(getSubmissionDateTime(tDate, tTime))
    /\ tPc' = "encoded"
    /\ UNCHANGED <<tDate, tTime, tzOffset, tOut, tStored, tShown>>
    /\ UNCHANGED othersTime

\* the modal's extractTimeForInput on what was stored
DecodeTime ==
    /\ tPc = "encoded"
    /\ tIsoModal # RangeError
    /\ tIsoForm # RangeError
    /\ tOut' = [modal |-> extractTimeForInput(tIsoModal), form |-> extractTimeForInput(tIsoForm)]
    /\ tPc' = "decoded"
    /\ UNCHANGED <<tDate, tTime, tzOffset, tIsoModal, tIsoForm, tStored, tShown>>
    /\ UNCHANGED othersTime

NextTime == EncodeTime \/ DecodeTime

(***************************************************************************)
(* A stored time value on its way through the register and the edit modal: *)
(* displayed with formatTimeFromISO, loaded into the time input with       *)
(* extractTimeForInput, possibly retyped, and encoded again by Save.       *)
(***************************************************************************)

\* toLocaleTimeString('en-US', { hour: '2-digit', minute: '2-digit' }) of a
\* time of day: "hh:mm AM" / "hh:mm PM"
LocaleTime(hours, minutes) ==
    LET h12 == IF hours % 12 = 0 THEN 12 ELSE hours % 12
    IN PadStart(ToStr(h12), 2) \o <<":">> \o PadStart(ToStr(minutes), 2)
          \o <<" ">> \o (IF hours < 12 THEN <<"A", "M">> ELSE <<"P", "M">>)

\* formatTimeFromISO(isoString)
formatTimeFromISO(isoString) ==
    IF Falsy(isoString) THEN <<"N", "/", "A">>
    ELSE LET date      == ParseDate(isoString)
             timeParts == Split(isoString, ":")
             hours     == NumAt(timeParts, 1)
             minutes   == NumAt(timeParts, 2)
         IN IF ~date.valid
            THEN IF Len(timeParts) >= 2
                 THEN IF hours = NaN \/ minutes = NaN
                      THEN <<"Invalid Date">>
                      ELSE LocaleTime((hours + (minutes \div 60)) % 24, minutes % 60)
                 ELSE <<"N", "/", "A">>
            ELSE LocaleTime(getUTCHours(date), getUTCMinutes(date))

\* stored checkin_time / checkout_time values: absent, empty, an ISO instant,
\* a bare time of day, and strings that are neither
StoredValues ==
    {Null, <<>>,
     DateString(2024, 3, 10) \o <<"T">> \o TimeString(9, 30)
        \o <<":", "0", "0", ".", "0", "0", "0", "Z">>,
     TimeString(10, 30) \o <<":", "0", "0">>,
     TimeString(10, 30),
     <<"a", "b", ":", "c", "d">>,
     <<"n", "/", "a">>}

\* date values of the record being edited (handleSave returns before encoding
\* when the record has none)
RecordDates ==
    {DateString(2024, 3, 10), DateString(1969, 12, 31),
     DateString(2024, 3, 10) \o <<"T", "0", "0", ":", "0", "0", ":", "0", "0">>,
     <<"n", "/", "a">>}

InitStored ==
    /\ tDate \in RecordDates
    /\ tStored \in StoredValues
    /\ tzOffset \in TzOffsets
    /\ tTime = <<>>
    /\ tIsoModal = Null
    /\ tIsoForm = Null
    /\ tOut = [modal |-> <<>>, form |-> <<>>]
    /\ tShown = <<>>
    /\ tPc = "stored"

\* the register row shows the value and the modal's init effect loads it
OpenStored ==
    /\ tPc = "stored"
    /\ tShown' = formatTimeFromISO(tStored)
    /\ tOut' = [tOut EXCEPT !.modal = extractTimeForInput(tStored)]
    /\ tTime' = extractTimeForInput(tStored)
    /\ tPc' = "opened"
    /\ UNCHANGED <<tDate, tzOffset, tIsoModal, tIsoForm, tStored>>
    /\ UNCHANGED othersTime

\* the user clears or retypes the time input
RetypeTime(v) ==
    /\ tPc = "opened"
    /\ tTime # v
    /\ tTime' = v
    /\ UNCHANGED <<tDate, tzOffset, tIsoModal, tIsoForm, tOut, tStored, tShown, tPc>>
    /\ UNCHANGED othersTime

\* handleSave encodes the input's value
SaveStored ==
    /\ tPc = "opened"
    /\ tIsoModal' = timeToISO(tTime, tDate)
    /\ tPc' = "saved"
    /\ UNCHANGED <<tDate, tTime, tzOffset, tIsoForm, tOut, tStored, tShown>>
    /\ UNCHANGED othersTime

NextStored ==
    \/ OpenStored
    \/ \E v \in {<<>>, TimeString(17, 0), TimeString(0, 5)} : RetypeTime(v)
    \/ SaveStored

(***************************************************************************)
(* Daily sales report client (src/lib/accounts.ts)                         *)
(*                                                                         *)
(* A message is a tuple <<text>> or <<text, id>>; Null is an absent field. *)
(* An outcome of the underlying fetch is                                   *)
(*   [reached, ok, parseable, detail]                                      *)
(* reached: fetch resolved with a response (FALSE: it rejected);           *)
(* ok: response.ok; parseable: response.json() resolves;                   *)
(* detail: the body's `detail` field (Null when absent).                   *)
(***************************************************************************)

ReportIds == 1..2

ClientFns == {"create", "getAll", "getById", "update", "delete"}

\* the id argument each function takes (0: none)
FnIds(fn) == IF fn \in {"create", "getAll"} THEN {0} ELSE ReportIds

Outcomes ==
    {[reached |-> FALSE, ok |-> FALSE, parseable |-> FALSE, detail |-> Null]}
    \cup {[reached |-> TRUE, ok |-> TRUE, parseable |-> p, detail |-> Null] : p \in BOOLEAN}
    \cup {[reached |-> TRUE, ok |-> FALSE, parseable |-> FALSE, detail |-> Null]}
    \cup {[reached |-> TRUE, ok |-> FALSE, parseable |-> TRUE, detail |-> d] :
             d \in {Null, <<>>, <<"Report already exists for this date">>}}

\* a client whose update replaces the report with PUT instead of patching it
RequestOfPut(fn, id) ==
    CASE fn = "create"  -> [method |-> "POST",   path |-> <<"/accounts/daily_sales_report">>]
      [] fn = "getAll"  -> [method |-> "GET",    path |-> <<"/accounts/daily_sales_report">>]
      [] fn = "getById" -> [method |-> "GET",    path |-> <<"/accounts/daily_sales_report", id>>]
      [] fn = "update"  -> [method |-> "PUT",    path |-> <<"/accounts/daily_sales_report", id>>]
      [] fn = "delete"  -> [method |-> "DELETE", path |-> <<"/accounts/daily_sales_report", id>>]

\* the fetch each client function issues: method and URL path under API_BASE_URL
RequestOf(fn, id) ==
    CASE fn = "create"  -> [method |-> "POST",   path |-> <<"/accounts/daily_sales_report">>]
      [] fn = "getAll"  -> [method |-> "GET",    path |-> <<"/accounts/daily_sales_report">>]
      [] fn = "getById" -> [method |-> "GET",    path |-> <<"/accounts/daily_sales_report", id>>]
      [] fn = "update"  -> [method |-> "PATCH",  path |-> <<"/accounts/daily_sales_report", id>>]
      [] fn = "delete"  -> [method |-> "DELETE", path |-> <<"/accounts/daily_sales_report", id>>]

\* the message each function falls back to when the error body has no detail
DefaultMessage(fn, id) ==
    CASE fn = "create"  -> <<"Failed to create daily sales report">>
      [] fn = "getAll"  -> <<"Failed to fetch daily sales reports">>
      [] fn = "getById" -> <<"Failed to fetch daily sales report", id>>
      [] fn = "update"  -> <<"Failed to update daily sales report", id>>
      [] fn = "delete"  -> <<"Failed to delete daily sales report", id>>

\* message of the TypeError a rejected fetch carries
FetchFailedMessage == <<"Failed to fetch">>

\* message of the SyntaxError a rejected response.json() carries
JsonSyntaxMessage == <<"Unexpected token in JSON">>

\* `return { data }`
DataResult == [settled |-> "resolved", has |-> {"data"}, error |-> Null]

\* `catch (error) { return { error: error.message } }`
ErrorResult(message) == [settled |-> "resolved", has |-> {"error"}, error |-> message]

\* a client without the catch block: the promise rejects with the thrown error
ClientResultUncaught(fn, id, o) ==
    IF ~o.reached THEN [settled |-> "rejected", has |-> {}, error |-> FetchFailedMessage]
    ELSE IF ~o.ok
         THEN IF ~o.parseable THEN ErrorResult(JsonSyntaxMessage)
              ELSE ErrorResult(IF Falsy(o.detail) THEN DefaultMessage(fn, id) ELSE o.detail)
    ELSE IF ~o.parseable THEN ErrorResult(JsonSyntaxMessage)
    ELSE DataResult

\* what create/getAll/getById/update/deleteDailySalesReport resolve with,
\* following the try block statement by statement
ClientResult(fn, id, o) ==
    IF ~o.reached THEN ErrorResult(FetchFailedMessage)
    ELSE IF ~o.ok
         THEN IF ~o.parseable THEN ErrorResult(JsonSyntaxMessage)
              ELSE ErrorResult(IF Falsy(o.detail) THEN DefaultMessage(fn, id) ELSE o.detail)
    ELSE IF ~o.parseable THEN ErrorResult(JsonSyntaxMessage)
    ELSE DataResult

\* `if (response.data)` in the dashboards
Succeeded(result) == "data" \in result.has

NoCall == [fn |-> "none", id |-> 0]

MaxApiCalls == 2

InitApi ==
    /\ apiCall = NoCall
    /\ apiOutcome = Null
    /\ apiResult = Null
    /\ apiFetches = <<>>
    /\ apiCalls = 0
    /\ apiPc = "idle"

\* a caller invokes one of the five functions: it issues its fetch and awaits
ApiInvoke(fn, id) ==
    /\ apiPc \in {"idle", "settled"}
    /\ apiCalls < MaxApiCalls
    /\ apiCall' = [fn |-> fn, id |-> id]
    /\ apiFetches' = <<RequestOf(fn, id)>>
    /\ apiCalls' = apiCalls + 1
    /\ apiOutcome' = Null
    /\ apiResult' = Null
    /\ apiPc' = "awaiting"
    /\ UNCHANGED othersApi

\* the fetch settles with outcome o and the function returns
ApiSettle(o) ==
    /\ apiPc = "awaiting"
    /\ apiOutcome' = o
    /\ apiResult' = ClientResult(apiCall.fn, apiCall.id, o)
    /\ apiPc' = "settled"
    /\ UNCHANGED <<apiCall, apiFetches, apiCalls>>
    /\ UNCHANGED othersApi

NextApi ==
    \/ \E fn \in ClientFns : \E id \in FnIds(fn) : ApiInvoke(fn, id)
    \/ \E o \in Outcomes : ApiSettle(o)

(***************************************************************************)
(* Accounts dashboard (accounts-dashboard.tsx): AccountantDashboard with   *)
(* its DailyReportUpload form and DailyReportRegister.                     *)
(*                                                                         *)
(* The backend is the environment: `server` is the set of report ids it    *)
(* holds.  A request in flight is first handled by the server (applied or  *)
(* refused) and later delivered to the client, so responses can arrive in  *)
(* any order and a response can be lost after the server applied it.       *)
(***************************************************************************)

\* bound on the fetches one run of the dashboard issues
MaxRequests == 5

Today == "2024-03-10"

\* one value of EXPENSE_CATEGORIES
SomeCategory == "amaze_ads"

\* DailyReportUpload.initialFormState
initialFormState == [date |-> Today, category |-> ""]

\* the stored report with a given id: report 2 predates the category column
ReportRecord(id) ==
    [id |-> id, date |-> Today, category |-> IF id = 1 THEN SomeCategory ELSE "null"]

\* DailyReportUpload's reportToEdit effect: the form a report loads into
FormOfReport(id) ==
    LET r == ReportRecord(id)
    IN [date |-> r.date, category |-> IF r.category = "null" THEN "" ELSE r.category]

\* a request as the client function issues it
NewRequest(rid, fn, id) ==
    [rid |-> rid, fn |-> fn, id |-> id, req |-> RequestOf(fn, id), st |-> "sent", snap |-> {}]

\* state after construction and the mount effect `useEffect(() => { fetchReports(); }, [])`
InitAcc ==
    /\ server \in SUBSET ReportIds
    /\ accNet = {NewRequest(1, "getAll", 0)}
    /\ accFetches = 1
    /\ accCalls = 1
    /\ reportHistory = {}
    /\ isLoading = TRUE
    /\ editingReport = 0
    /\ activeTab = "upload"
    /\ formData = initialFormState
    /\ uploadIsSubmitting = FALSE
    /\ accToast = "none"
    /\ fetchLog = [newestOk |-> 0, data |-> {}, deleted |-> {}]

\* requests in flight whose continuation goes on to call fetchReports
AccChains == Cardinality({r \in accNet : r.fn # "getAll"})

\* room for a handler that issues k fetches before it is done
AccBudget(k) == accFetches + AccChains + k <= MaxRequests

\* ---- user actions -------------------------------------------------------

\* <Tabs value={activeTab} onValueChange={setActiveTab}>
setActiveTab(tab) ==
    /\ page = "accounts"
    /\ activeTab # tab
    /\ activeTab' = tab
    /\ UNCHANGED <<server, accNet, accFetches, accCalls, reportHistory, fetchLog, isLoading,
                   editingReport, formData, uploadIsSubmitting, accToast>>
    /\ UNCHANGED othersAcc

\* DailyReportUpload.handleChange
handleChange(name, value) ==
    /\ page = "accounts"
    /\ activeTab = "upload"
    /\ formData[name] # value
    /\ formData' = [formData EXCEPT ![name] = value]
    /\ UNCHANGED <<server, accNet, accFetches, accCalls, reportHistory, fetchLog, isLoading,
                   editingReport, activeTab, uploadIsSubmitting, accToast>>
    /\ UNCHANGED othersAcc

\* the submit button: <Button type="submit" disabled={isSubmitting}>
SubmitButtonEnabled == activeTab = "upload" /\ ~uploadIsSubmitting

\* handleSubmit validation that forgets the category check
FormValidDateOnly(fd) == fd.date # ""

\* handleSubmit's validation: date required, category required
FormValid(fd) == fd.date # "" /\ fd.category # ""

\* DailyReportUpload.handleSubmit up to its await, through
\* handleCreateReport / handleUpdateReport up to theirs
handleSubmit ==
    /\ page = "accounts"
    /\ SubmitButtonEnabled
    /\ IF ~FormValid(formData)
       THEN /\ accToast' = "Validation Error"
            /\ UNCHANGED <<server, accNet, accFetches, accCalls, reportHistory, fetchLog, isLoading,
                           editingReport, activeTab, formData, uploadIsSubmitting>>
       ELSE /\ AccBudget(2)
            /\ uploadIsSubmitting' = TRUE
            /\ accNet' = accNet \cup
                   {IF editingReport # 0
                    THEN NewRequest(accFetches + 1, "update", editingReport)
                    ELSE NewRequest(accFetches + 1, "create", 0)}
            /\ accFetches' = accFetches + 1
            /\ accCalls' = accCalls + 1
            /\ UNCHANGED <<server, reportHistory, fetchLog, isLoading, editingReport, activeTab,
                           formData, accToast>>
    /\ UNCHANGED othersAcc

\* AccountantDashboard.handleEditClick, then the reportToEdit effect
handleEditClick(id) ==
    /\ page = "accounts"
    /\ activeTab = "register"
    /\ ~isLoading
    /\ id \in reportHistory
    /\ editingReport' = id
    /\ activeTab' = "upload"
    /\ formData' = FormOfReport(id)
    /\ UNCHANGED <<server, accNet, accFetches, accCalls, reportHistory, fetchLog, isLoading,
                   uploadIsSubmitting, accToast>>
    /\ UNCHANGED othersAcc

\* AccountantDashboard.handleCancelEdit, then the reportToEdit effect
handleCancelEdit ==
    /\ page = "accounts"
    /\ activeTab = "upload"
    /\ editingReport # 0
    /\ editingReport' = 0
    /\ formData' = initialFormState
    /\ UNCHANGED <<server, accNet, accFetches, accCalls, reportHistory, fetchLog, isLoading,
                   activeTab, uploadIsSubmitting, accToast>>
    /\ UNCHANGED othersAcc

\* a delete handler that does not look at the prompt's answer
confirmIgnored(confirmed) == TRUE

\* if (!window.confirm(...)) return
confirmAccepted(confirmed) == confirmed

\* AccountantDashboard.handleDeleteReport up to its await; confirmed is the
\* answer to window.confirm
handleDeleteReport(id, confirmed) ==
    /\ page = "accounts"
    /\ activeTab = "register"
    /\ ~isLoading
    /\ id \in reportHistory
    /\ IF confirmAccepted(confirmed)
       THEN /\ AccBudget(2)
            /\ accNet' = accNet \cup {NewRequest(accFetches + 1, "delete", id)}
            /\ accFetches' = accFetches + 1
            /\ accCalls' = accCalls + 1
       ELSE UNCHANGED <<accNet, accFetches, accCalls>>
    /\ UNCHANGED <<server, reportHistory, fetchLog, isLoading, editingReport, activeTab, formData,
                   uploadIsSubmitting, accToast>>
    /\ UNCHANGED othersAcc

\* ---- the backend -------------------------------------------------------

\* the server handles a request and applies it (a GET reads the stored ids)
ServerHandle(r) ==
    /\ page = "accounts"
    /\ r \in accNet
    /\ r.st = "sent"
    /\ r.fn \in {"update", "delete"} => r.id \in server
    /\ r.fn = "create" => server # ReportIds
    /\ server' = CASE r.fn = "create" -> server \cup {CHOOSE i \in ReportIds : i \notin server}
                   [] r.fn = "delete" -> server \ {r.id}
                   [] OTHER -> server
    /\ accNet' = (accNet \ {r}) \cup {[r EXCEPT !.st = "applied", !.snap = server]}
    /\ fetchLog' = [fetchLog EXCEPT !.deleted = @ \ server']
    /\ UNCHANGED <<accFetches, accCalls, reportHistory, isLoading, editingReport, activeTab,
                   formData, uploadIsSubmitting, accToast>>
    /\ UNCHANGED othersAcc

\* the outcomes a request can settle with: one the server applied answers ok
\* unless the response is lost; one it did not apply fails (the request is
\* lost, or the server refuses it with a non-ok status)
OutcomesFor(st) ==
    {o \in Outcomes : \/ ~o.reached
                      \/ st = "applied" /\ o.ok
                      \/ st = "sent" /\ ~o.ok}

\* ---- continuations after a response ------------------------------------

\* fetchReports after its await
FetchReportsDone(r, result) ==
    /\ accNet' = accNet \ {r}
    /\ isLoading' = FALSE
    /\ IF Succeeded(result)
       THEN /\ reportHistory' = r.snap
            /\ accToast' = accToast
            /\ fetchLog' = IF r.rid > fetchLog.newestOk
                           THEN [fetchLog EXCEPT !.newestOk = r.rid, !.data = r.snap]
                           ELSE fetchLog
       ELSE /\ reportHistory' = reportHistory
            /\ accToast' = "Error Fetching Reports"
            /\ fetchLog' = fetchLog
    /\ UNCHANGED <<server, accFetches, accCalls, editingReport, activeTab, formData,
                   uploadIsSubmitting>>

\* handleCreateReport after its await, then the rest of handleSubmit
CreateReportDone(r, result) ==
    /\ uploadIsSubmitting' = FALSE
    /\ IF Succeeded(result)
       THEN /\ accToast' = "Success"
            /\ isLoading' = TRUE
            /\ accNet' = (accNet \ {r}) \cup {NewRequest(accFetches + 1, "getAll", 0)}
            /\ accFetches' = accFetches + 1
            /\ accCalls' = accCalls + 1
            /\ activeTab' = "register"
            /\ formData' = initialFormState
       ELSE /\ accToast' = "Submission Failed"
            /\ accNet' = accNet \ {r}
            /\ UNCHANGED <<isLoading, accFetches, accCalls, activeTab, formData>>
    /\ UNCHANGED <<server, reportHistory, fetchLog, editingReport>>

\* handleUpdateReport after its await, then the rest of handleSubmit
UpdateReportDone(r, result) ==
    /\ uploadIsSubmitting' = FALSE
    /\ IF Succeeded(result)
       THEN /\ accToast' = "Success"
            /\ editingReport' = 0
            /\ isLoading' = TRUE
            /\ accNet' = (accNet \ {r}) \cup {NewRequest(accFetches + 1, "getAll", 0)}
            /\ accFetches' = accFetches + 1
            /\ accCalls' = accCalls + 1
            /\ activeTab' = "register"
            /\ formData' = initialFormState
       ELSE /\ accToast' = "Update Failed"
            /\ accNet' = accNet \ {r}
            /\ UNCHANGED <<isLoading, accFetches, accCalls, activeTab, formData, editingReport>>
    /\ UNCHANGED <<server, reportHistory, fetchLog>>

\* handleDeleteReport after its await
DeleteReportDone(r, result) ==
    /\ IF Succeeded(result)
       THEN /\ accToast' = "Success"
            /\ isLoading' = TRUE
            /\ accNet' = (accNet \ {r}) \cup {NewRequest(accFetches + 1, "getAll", 0)}
            /\ accFetches' = accFetches + 1
            /\ accCalls' = accCalls + 1
            /\ fetchLog' = [fetchLog EXCEPT !.deleted = @ \cup {r.id}]
       ELSE /\ accToast' = "Deletion Failed"
            /\ accNet' = accNet \ {r}
            /\ UNCHANGED <<isLoading, accFetches, accCalls, fetchLog>>
    /\ UNCHANGED <<server, reportHistory, editingReport, activeTab, formData,
                   uploadIsSubmitting>>

\* a request settles with outcome o: the client function returns and the
\* awaiting handler runs on
Deliver(r, o) ==
    /\ page = "accounts"
    /\ r \in accNet
    /\ o \in OutcomesFor(r.st)
    /\ LET result == ClientResult(r.fn, r.id, o)
       IN CASE r.fn = "getAll" -> FetchReportsDone(r, result)
            [] r.fn = "create" -> CreateReportDone(r, result)
            [] r.fn = "update" -> UpdateReportDone(r, result)
            [] r.fn = "delete" -> DeleteReportDone(r, result)
    /\ UNCHANGED othersAcc

\* the accounts dashboard is not mounted
IdleAcc ==
    /\ server = {}
    /\ accNet = {}
    /\ accFetches = 0
    /\ accCalls = 0
    /\ reportHistory = {}
    /\ isLoading = TRUE
    /\ editingReport = 0
    /\ activeTab = "upload"
    /\ formData = initialFormState
    /\ uploadIsSubmitting = FALSE
    /\ accToast = "none"
    /\ fetchLog = [newestOk |-> 0, data |-> {}, deleted |-> {}]

NextAcc ==
    \/ \E tab \in {"upload", "register"} : setActiveTab(tab)
    \/ \E v \in {"", Today} : handleChange("date", v)
    \/ \E v \in {"", SomeCategory} : handleChange("category", v)
    \/ handleSubmit
    \/ \E id \in ReportIds : handleEditClick(id)
    \/ handleCancelEdit
    \/ \E id \in ReportIds : \E c \in BOOLEAN : handleDeleteReport(id, c)
    \/ \E r \in accNet : ServerHandle(r)
    \/ \E r \in accNet : \E o \in Outcomes : Deliver(r, o)

(***************************************************************************)
(* HR dashboard (hr-dashboard.tsx): HRDashboard with its manual entry      *)
(* form, and the AttendanceEditModal it mounts while editingRecord is set. *)
(*                                                                         *)
(* The attendance client (@/lib/hr) resolves with {data} or {error}; the   *)
(* backend is the environment, handled as for the accounts dashboard.      *)
(***************************************************************************)

\* bound on the requests the user starts in one run of the HR dashboard
\* (opening the modal, Save, check-in, check-out)
MaxHrOps == 2

StaffIds == {1}

AttendanceIds == {1, 2, 3}

HrToday == <<"2", "0", "2", "4", "-", "0", "3", "-", "1", "0">>

HrNow == <<"0", "9", ":", "3", "0">>

HrLater == <<"1", "7", ":", "0", "0">>

\* the stored attendance records: 1 is the check-in the manual form creates,
\* 2 has no date, 3 carries a date-time where a date is expected
AttendanceRecord(id) ==
    CASE id = 1 -> [id |-> 1, staff_id |-> 1, date |-> HrToday,
                    checkin_time |-> HrToday \o <<"T">> \o HrNow
                                       \o <<":", "0", "0", ".", "0", "0", "0", "Z">>,
                    checkout_time |-> Null, status |-> "present"]
      [] id = 2 -> [id |-> 2, staff_id |-> 1, date |-> Null,
                    checkin_time |-> Null, checkout_time |-> Null, status |-> "absent"]
      [] id = 3 -> [id |-> 3, staff_id |-> 1,
                    date |-> HrToday \o <<"T", "0", "0", ":", "0", "0", ":", "0", "0">>,
                    checkin_time |-> Null, checkout_time |-> Null, status |-> "leave"]

NoPayload ==
    [id |-> 0, staff_id |-> 0, date |-> Null, status |-> "", checkin_time |-> Null,
     checkout_time |-> Null]

\* a request of the attendance client; rid tells requests apart (the number of
\* the user action that started it, 0 for the mount effect), cont names the
\* handler awaiting it and gen the modal instance that handler belongs to
HrRequest(rid, fn, payload, cont, gen) ==
    [rid |-> rid, fn |-> fn, payload |-> payload, cont |-> cont, gen |-> gen,
     st |-> "sent", snap |-> {}]

\* results of the attendance client: {data} or {error: message}; the last one
\* is a rejected promise, whose error.message the submit handlers' catch reads
HrResults == {[ok |-> TRUE, error |-> Null, thrown |-> FALSE],
              [ok |-> FALSE, error |-> <<"Attendance already recorded">>, thrown |-> FALSE],
              [ok |-> FALSE, error |-> <<>>, thrown |-> FALSE],
              [ok |-> FALSE, error |-> <<"Failed to fetch">>, thrown |-> TRUE]}

\* state after construction and the mount effect (fetchData up to its first await)
InitHR ==
    /\ hrServer = {2, 3}
    /\ hrNet = {HrRequest(0, "getActiveStaffs", NoPayload, "mount", 0)}
    /\ hrOps = 0
    /\ staffs = {}
    /\ attendanceRecords = {}
    /\ isLoadingStaffs = TRUE
    /\ isLoadingAttendance = TRUE
    /\ selectedStaffId = <<>>
    /\ attendanceTime = HrNow
    /\ attendanceDate = HrToday
    /\ manualStatus = "present"
    /\ isSubmitting = FALSE
    /\ submissionError = Null
    /\ editingRecord = 0
    /\ modalGen = 0
    /\ fetchedRecord = 0
    /\ isLoadingDetails = FALSE
    /\ checkInTime = <<>>
    /\ checkOutTime = <<>>
    /\ status = "present"
    /\ isSaving = FALSE
    /\ hrToast = "none"

\* variables of the manual entry form
formVars == <<selectedStaffId, attendanceTime, attendanceDate, manualStatus>>

\* variables local to the mounted AttendanceEditModal
modalVars == <<fetchedRecord, isLoadingDetails, checkInTime, checkOutTime, status, isSaving>>

\* tuples used in UNCHANGED clauses
hrBackend == <<hrServer, hrNet, hrOps>>

hrLists == <<staffs, attendanceRecords, isLoadingStaffs, isLoadingAttendance>>

submitVars == <<isSubmitting, submissionError>>

modalMount == <<editingRecord, modalGen>>

\* an open <Dialog> is modal: what lies behind it takes no input.  The edit
\* dialog lies over the page, the submission error dialog over both.
PageInteractive == page = "hr" /\ editingRecord = 0 /\ submissionError = Null

ModalInteractive == page = "hr" /\ editingRecord # 0 /\ submissionError = Null

\* the user may start another request
HrBudget == hrOps < MaxHrOps

\* parseInt(selectedStaffId)
parseInt(s) == IF s = <<>> THEN NaN ELSE Number(s)

\* ---- the manual entry form ----------------------------------------------

\* <Select value={selectedStaffId} onValueChange={setSelectedStaffId}>
setSelectedStaffId(id) ==
    /\ PageInteractive
    /\ ~(isSubmitting \/ isLoadingStaffs \/ staffs = {})
    /\ id \in staffs
    /\ selectedStaffId # ToStr(id)
    /\ selectedStaffId' = ToStr(id)
    /\ UNCHANGED <<attendanceTime, attendanceDate, manualStatus>>
    /\ UNCHANGED <<hrBackend, hrLists, submitVars, modalMount, modalVars, hrToast, othersHR>>

\* <Input type="date" value={attendanceDate} disabled={isSubmitting}>
setAttendanceDate(v) ==
    /\ PageInteractive
    /\ ~isSubmitting
    /\ attendanceDate # v
    /\ attendanceDate' = v
    /\ UNCHANGED <<selectedStaffId, attendanceTime, manualStatus>>
    /\ UNCHANGED <<hrBackend, hrLists, submitVars, modalMount, modalVars, hrToast, othersHR>>

\* <Input type="time" value={attendanceTime} disabled={isSubmitting}>
setAttendanceTime(v) ==
    /\ PageInteractive
    /\ ~isSubmitting
    /\ attendanceTime # v
    /\ attendanceTime' = v
    /\ UNCHANGED <<selectedStaffId, attendanceDate, manualStatus>>
    /\ UNCHANGED <<hrBackend, hrLists, submitVars, modalMount, modalVars, hrToast, othersHR>>

\* <Select value={manualStatus} onValueChange={setManualStatus} disabled={isSubmitting}>
setManualStatus(v) ==
    /\ PageInteractive
    /\ ~isSubmitting
    /\ manualStatus # v
    /\ manualStatus' = v
    /\ UNCHANGED <<selectedStaffId, attendanceTime, attendanceDate>>
    /\ UNCHANGED <<hrBackend, hrLists, submitVars, modalMount, modalVars, hrToast, othersHR>>

\* resetForm: staff cleared, time and date set to now, status to present
resetForm ==
    /\ selectedStaffId' = <<>>
    /\ attendanceTime' = HrNow
    /\ attendanceDate' = HrToday
    /\ manualStatus' = "present"

\* the check-in button that stays enabled while a submission is in flight
CheckInButtonNeverBusy == ~(Falsy(selectedStaffId) \/ isLoadingStaffs)

\* disabled={isSubmitting || !selectedStaffId || isLoadingStaffs}
CheckInButtonEnabled == ~(isSubmitting \/ Falsy(selectedStaffId) \/ isLoadingStaffs)

\* disabled={isSubmitting || !selectedStaffId || isLoadingStaffs || !manualStatus}
CheckOutButtonEnabled ==
    ~(isSubmitting \/ Falsy(selectedStaffId) \/ isLoadingStaffs \/ manualStatus = "")

\* a check-in validation that forgets the date
CheckInInputsPresentNoDate == ~(Falsy(selectedStaffId) \/ Falsy(attendanceTime))

\* handleCheckInSubmit's validation
CheckInInputsPresent ==
    ~(Falsy(selectedStaffId) \/ Falsy(attendanceTime) \/ Falsy(attendanceDate))

\* handleCheckOutSubmit's validation
CheckOutInputsPresent ==
    ~(Falsy(selectedStaffId) \/ Falsy(attendanceTime) \/ Falsy(attendanceDate)
      \/ manualStatus = "")

\* a submission that sends no timestamp
SubmitAttendanceNoTime(fn, cont) ==
    LET statusToSend == IF manualStatus = "" THEN "present" ELSE manualStatus
        payload == [id |-> 0, staff_id |-> parseInt(selectedStaffId),
                    date |-> attendanceDate, status |-> statusToSend,
                    checkin_time |-> Null, checkout_time |-> Null]
    IN /\ isSubmitting' = TRUE
       /\ submissionError' = Null
       /\ HrBudget
       /\ hrNet' = hrNet \cup {HrRequest(hrOps + 1, fn, payload, cont, 0)}
       /\ hrOps' = hrOps + 1
       /\ UNCHANGED <<hrServer, hrLists, formVars, modalMount, modalVars, hrToast>>

\* what both submit handlers do once validation passed, up to the await;
\* toISOString throws before the try block on an invalid Date, and the
\* handler then ends with the busy flag set
SubmitAttendance(fn, cont) ==
    LET iso == toISOString(getSubmissionDateTime(attendanceDate, attendanceTime))
        statusToSend == IF manualStatus = "" THEN "present" ELSE manualStatus
        payload == [id |-> 0, staff_id |-> parseInt(selectedStaffId),
                    date |-> attendanceDate, status |-> statusToSend,
                    checkin_time |-> IF fn = "createAttendance" THEN iso ELSE Null,
                    checkout_time |-> IF fn = "createAttendance" THEN Null ELSE iso]
    IN /\ isSubmitting' = TRUE
       /\ submissionError' = Null
       /\ IF iso = RangeError
          THEN UNCHANGED <<hrNet, hrOps>>
          ELSE /\ HrBudget
               /\ hrNet' = hrNet \cup {HrRequest(hrOps + 1, fn, payload, cont, 0)}
               /\ hrOps' = hrOps + 1
       /\ UNCHANGED <<hrServer, hrLists, formVars, modalMount, modalVars, hrToast>>

\* handleCheckInSubmit up to its await
handleCheckInSubmit ==
    /\ PageInteractive
    /\ CheckInButtonEnabled
    /\ IF ~CheckInInputsPresent
       THEN /\ hrToast' = "Please select staff, date, and time for check-in."
            /\ UNCHANGED <<hrBackend, hrLists, formVars, submitVars, modalMount, modalVars>>
       ELSE SubmitAttendance("createAttendance", "checkin")
    /\ UNCHANGED othersHR

\* handleCheckOutSubmit up to its await
handleCheckOutSubmit ==
    /\ PageInteractive
    /\ CheckOutButtonEnabled
    /\ IF ~CheckOutInputsPresent
       THEN /\ hrToast' = "Please select staff, date, time, AND status for check-out."
            /\ UNCHANGED <<hrBackend, hrLists, formVars, submitVars, modalMount, modalVars>>
       ELSE SubmitAttendance("checkoutAttendance", "checkout")
    /\ UNCHANGED othersHR

\* SubmissionErrorModal: onClose={() => setSubmissionError(null)}
closeSubmissionError ==
    /\ page = "hr"
    /\ submissionError # Null
    /\ submissionError' = Null
    /\ UNCHANGED <<hrBackend, hrLists, formVars, isSubmitting, modalMount, modalVars, hrToast,
                   othersHR>>

\* ---- the edit modal ------------------------------------------------------

\* the state a freshly mounted AttendanceEditModal holds (its useState calls)
ModalUnmounted ==
    /\ fetchedRecord' = 0
    /\ isLoadingDetails' = FALSE
    /\ checkInTime' = <<>>
    /\ checkOutTime' = <<>>
    /\ status' = "present"
    /\ isSaving' = FALSE

\* record.status || 'present'
StatusOrPresent(st) == IF st = "" THEN "present" ELSE st

\* the register's Edit button: onEdit={setEditingRecord}; the modal mounts and
\* its two effects run, the second up to its await
onEdit(id) ==
    /\ PageInteractive
    /\ ~isLoadingAttendance
    /\ id \in attendanceRecords
    /\ HrBudget
    /\ editingRecord' = id
    /\ modalGen' = modalGen + 1
    /\ fetchedRecord' = 0
    /\ isSaving' = FALSE
    /\ checkInTime' = extractTimeForInput(AttendanceRecord(id).checkin_time)
    /\ checkOutTime' = extractTimeForInput(AttendanceRecord(id).checkout_time)
    /\ status' = StatusOrPresent(AttendanceRecord(id).status)
    /\ isLoadingDetails' = TRUE
    /\ hrNet' = hrNet \cup {HrRequest(hrOps + 1, "getAttendanceById",
                                      [NoPayload EXCEPT !.id = id], "details", modalGen + 1)}
    /\ hrOps' = hrOps + 1
    /\ UNCHANGED <<hrServer, hrLists, formVars, submitVars, hrToast, othersHR>>

\* onClose={() => setEditingRecord(null)}: Cancel, or dismissing the dialog
\* (onOpenChange); the modal unmounts
onClose ==
    /\ ModalInteractive
    /\ editingRecord' = 0
    /\ ModalUnmounted
    /\ UNCHANGED <<hrBackend, hrLists, formVars, submitVars, modalGen, hrToast, othersHR>>

\* <Input type="time" value={checkInTime} onChange=...>
setCheckInTime(v) ==
    /\ ModalInteractive
    /\ checkInTime # v
    /\ checkInTime' = v
    /\ UNCHANGED <<fetchedRecord, isLoadingDetails, checkOutTime, status, isSaving>>
    /\ UNCHANGED <<hrBackend, hrLists, formVars, submitVars, modalMount, hrToast, othersHR>>

\* <Input type="time" value={checkOutTime} onChange=...>
setCheckOutTime(v) ==
    /\ ModalInteractive
    /\ checkOutTime # v
    /\ checkOutTime' = v
    /\ UNCHANGED <<fetchedRecord, isLoadingDetails, checkInTime, status, isSaving>>
    /\ UNCHANGED <<hrBackend, hrLists, formVars, submitVars, modalMount, hrToast, othersHR>>

\* <Select value={status} onValueChange={setStatus}>
setStatus(v) ==
    /\ ModalInteractive
    /\ status # v
    /\ status' = v
    /\ UNCHANGED <<fetchedRecord, isLoadingDetails, checkInTime, checkOutTime, isSaving>>
    /\ UNCHANGED <<hrBackend, hrLists, formVars, submitVars, modalMount, hrToast, othersHR>>

\* <Button onClick={handleSave} disabled={isSaving}>
SaveButtonEnabled == ~isSaving

\* fetchedRecord || record
activeRecord == AttendanceRecord(IF fetchedRecord # 0 THEN fetchedRecord ELSE editingRecord)

\* !checkinISO && status !== 'absent' && status !== 'leave'
CheckInRequired(checkinISO, st) == Falsy(checkinISO) /\ st # "absent" /\ st # "leave"

\* handleSave up to its await, through handleUpdateRecord up to its await.
\* Both timeToISO calls precede the check-in check and lie outside the try
\* block: when either throws, the handler ends with isSaving set.
handleSave ==
    /\ ModalInteractive
    /\ SaveButtonEnabled
    /\ LET recordDate == activeRecord.date
       IN IF Falsy(recordDate)
          THEN /\ hrToast' = "Missing date information."
               /\ UNCHANGED <<hrNet, hrOps, isSaving>>
          ELSE LET checkinISO == timeToISO(checkInTime, recordDate)
                   checkoutISO == timeToISO(checkOutTime, recordDate)
               IN IF checkinISO = RangeError \/ checkoutISO = RangeError
                  THEN /\ isSaving' = TRUE
                       /\ UNCHANGED <<hrNet, hrOps, hrToast>>
                  ELSE IF CheckInRequired(checkinISO, status)
                  THEN /\ hrToast' = "Check-in time is required for this status."
                       /\ UNCHANGED <<hrNet, hrOps, isSaving>>
                  ELSE /\ HrBudget
                       /\ isSaving' = TRUE
                       /\ hrNet' = hrNet \cup
                              {HrRequest(hrOps + 1, "updateAttendance",
                                         [id |-> activeRecord.id,
                                          staff_id |-> activeRecord.staff_id,
                                          date |-> activeRecord.date,
                                          status |-> status,
                                          checkin_time |-> checkinISO,
                                          checkout_time |-> checkoutISO],
                                         "save", modalGen)}
                       /\ hrOps' = hrOps + 1
                       /\ hrToast' = hrToast
    /\ UNCHANGED <<fetchedRecord, isLoadingDetails, checkInTime, checkOutTime, status>>
    /\ UNCHANGED <<hrServer, hrLists, formVars, submitVars, modalMount, othersHR>>

\* ---- the attendance backend ---------------------------------------------

\* the server handles a request and applies it: a check-in stores record 1,
\* the list request reads the stored ids
HrServerHandle(r) ==
    /\ page = "hr"
    /\ r \in hrNet
    /\ r.st = "sent"
    /\ r.fn = "createAttendance" => 1 \notin hrServer
    /\ r.fn = "checkoutAttendance" => 1 \in hrServer
    /\ r.fn \in {"updateAttendance", "getAttendanceById"} => r.payload.id \in hrServer
    /\ hrServer' = IF r.fn = "createAttendance" THEN hrServer \cup {1} ELSE hrServer
    /\ hrNet' = (hrNet \ {r}) \cup {[r EXCEPT !.st = "applied", !.snap = hrServer]}
    /\ UNCHANGED <<hrOps, hrLists, formVars, submitVars, modalMount, modalVars, hrToast,
                   othersHR>>

\* the results a request can settle with: data once the server applied it, an
\* error at any time
HrResultsFor(st) == {res \in HrResults : res.ok => st = "applied"}

\* a handler that shows result.error as it came
ErrorAsGiven(res, fallback) == res.error

\* result.error || "Unknown API error during ..."
ErrorOr(res, fallback) == IF Falsy(res.error) THEN <<fallback>> ELSE res.error

\* the catch block: `An unexpected error occurred: ${error.message}`
UnexpectedError(res) == <<"An unexpected error occurred: ">> \o res.error

\* the submit handlers catch a rejected promise; the other callers rely on the
\* client resolving
Catches(fn) == fn \in {"createAttendance", "checkoutAttendance"}

\* the modal instance a request belongs to is still the mounted one
Mounted(gen) == editingRecord # 0 /\ modalGen = gen

\* a handler that drops the re-fetch: the settled request just leaves the network
fetchAttendanceSkipped(r, cont) ==
    /\ isLoadingAttendance' = isLoadingAttendance
    /\ hrNet' = hrNet \ {r}
    /\ hrOps' = hrOps

\* fetchAttendance up to its await, called when request r has settled
fetchAttendance(r, cont) ==
    /\ isLoadingAttendance' = TRUE
    /\ hrNet' = (hrNet \ {r}) \cup
                    {HrRequest(r.rid, "getAllAttendance", NoPayload, cont, r.gen)}
    /\ hrOps' = hrOps

\* ---- continuations after a response -------------------------------------

\* fetchData of the mount effect after getActiveStaffs
FetchStaffsDone(r, res) ==
    /\ IF res.ok
       THEN staffs' = StaffIds /\ hrToast' = hrToast
       ELSE staffs' = staffs /\ hrToast' = "Error Fetching Staffs"
    /\ isLoadingStaffs' = FALSE
    /\ fetchAttendance(r, "mount")
    /\ UNCHANGED <<hrServer, attendanceRecords, formVars, submitVars, modalMount, modalVars>>

\* a fetch that adds the response to the list it had
MergedAfterFetch(prev, res, data) == IF res.ok THEN prev \cup data ELSE prev

\* if (result.data) { setAttendanceRecords(result.data) }
ListAfterFetch(prev, res, data) == IF res.ok THEN data ELSE prev

\* fetchAttendance after its await, then whatever awaited fetchAttendance:
\* the rest of handleCheckInSubmit / handleCheckOutSubmit (resetForm, finally),
\* or the rest of handleUpdateRecord and handleSave (onClose, finally)
FetchAttendanceDone(r, res) ==
    /\ hrNet' = hrNet \ {r}
    /\ attendanceRecords' = ListAfterFetch(attendanceRecords, res, r.snap)
    /\ hrToast' = IF res.ok THEN hrToast ELSE "Error Fetching Attendance"
    /\ isLoadingAttendance' = FALSE
    /\ IF r.cont \in {"checkin", "checkout"}
       THEN /\ resetForm
            /\ isSubmitting' = FALSE
       ELSE UNCHANGED <<formVars, isSubmitting>>
    /\ IF r.cont = "save"
       THEN editingRecord' = 0 /\ ModalUnmounted
       ELSE UNCHANGED <<editingRecord, modalVars>>
    /\ UNCHANGED <<hrServer, hrOps, staffs, isLoadingStaffs, submissionError, modalGen>>

\* handleCheckInSubmit / handleCheckOutSubmit after createAttendance /
\* checkoutAttendance settled
SubmitAttendanceDone(r, res) ==
    LET isCheckIn == r.fn = "createAttendance"
    IN IF res.ok
       THEN /\ hrToast' = IF isCheckIn THEN "Check-In Recorded" ELSE "Check-Out Recorded"
            /\ fetchAttendance(r, r.cont)
            /\ UNCHANGED <<hrServer, staffs, attendanceRecords, isLoadingStaffs, formVars,
                           submitVars, modalMount, modalVars>>
       ELSE /\ submissionError' =
                   IF res.thrown
                   THEN UnexpectedError(res)
                   ELSE ErrorOr(res, IF isCheckIn
                                     THEN "Unknown API error during check-in."
                                     ELSE "Unknown API error during check-out.")
            /\ hrToast' = IF res.thrown THEN "System Error"
                          ELSE IF isCheckIn THEN "Check-In Failed" ELSE "Check-Out Failed"
            /\ isSubmitting' = FALSE
            /\ hrNet' = hrNet \ {r}
            /\ UNCHANGED <<hrServer, hrOps, hrLists, formVars, modalMount, modalVars>>

\* a handler that takes every settled update for a success
updateSettled(res) == TRUE

\* if (result.data) of handleUpdateRecord
updateHasData(res) == res.ok

\* handleUpdateRecord after updateAttendance settled; on an error it throws
\* and handleSave's catch and finally run
UpdateRecordDone(r, res) ==
    IF updateHasData(res)
    THEN /\ hrToast' = "Record Updated"
         /\ fetchAttendance(r, "save")
         /\ UNCHANGED <<hrServer, staffs, attendanceRecords, isLoadingStaffs, formVars,
                        submitVars, modalMount, modalVars>>
    ELSE /\ hrToast' = "Update Failed"
         /\ hrNet' = hrNet \ {r}
         /\ isSaving' = IF Mounted(r.gen) THEN FALSE ELSE isSaving
         /\ UNCHANGED <<hrServer, hrOps, hrLists, formVars, submitVars, modalMount,
                        fetchedRecord, isLoadingDetails, checkInTime, checkOutTime, status>>

\* fetchDetails of the modal after getAttendanceById settled; the setters of
\* an unmounted instance do nothing
FetchDetailsDone(r, res) ==
    /\ hrNet' = hrNet \ {r}
    /\ IF ~Mounted(r.gen)
       THEN UNCHANGED modalVars
       ELSE /\ isLoadingDetails' = FALSE
            /\ isSaving' = isSaving
            /\ IF res.ok
               THEN LET data == AttendanceRecord(r.payload.id)
                    IN /\ fetchedRecord' = data.id
                       /\ checkInTime' = extractTimeForInput(data.checkin_time)
                       /\ checkOutTime' = extractTimeForInput(data.checkout_time)
                       /\ status' = StatusOrPresent(data.status)
               ELSE UNCHANGED <<fetchedRecord, checkInTime, checkOutTime, status>>
    /\ UNCHANGED <<hrServer, hrOps, hrLists, formVars, submitVars, modalMount, hrToast>>

\* a request settles with result res and the awaiting handler runs on
HrDeliver(r, res) ==
    /\ page = "hr"
    /\ r \in hrNet
    /\ res \in HrResultsFor(r.st)
    /\ res.thrown => Catches(r.fn)
    /\ CASE r.fn = "getActiveStaffs" -> FetchStaffsDone(r, res)
         [] r.fn = "getAllAttendance" -> FetchAttendanceDone(r, res)
         [] r.fn \in {"createAttendance", "checkoutAttendance"} -> SubmitAttendanceDone(r, res)
         [] r.fn = "updateAttendance" -> UpdateRecordDone(r, res)
         [] r.fn = "getAttendanceById" -> FetchDetailsDone(r, res)
    /\ UNCHANGED othersHR

NextHR ==
    \/ \E id \in StaffIds : setSelectedStaffId(id)
    \/ \E v \in {<<>>, HrToday} : setAttendanceDate(v)
    \/ \E v \in {<<>>, HrNow} : setAttendanceTime(v)
    \/ \E v \in {"present", "absent"} : setManualStatus(v)
    \/ handleCheckInSubmit
    \/ handleCheckOutSubmit
    \/ closeSubmissionError
    \/ \E id \in AttendanceIds : onEdit(id)
    \/ onClose
    \/ \E v \in {<<>>, HrNow} : setCheckInTime(v)
    \/ \E v \in {<<>>, HrLater} : setCheckOutTime(v)
    \/ \E v \in {"present", "absent"} : setStatus(v)
    \/ handleSave
    \/ \E r \in hrNet : HrServerHandle(r)
    \/ \E r \in hrNet : \E res \in HrResults : HrDeliver(r, res)

\* the HR dashboard is not mounted
IdleHR ==
    /\ hrServer = {}
    /\ hrNet = {}
    /\ hrOps = 0
    /\ staffs = {}
    /\ attendanceRecords = {}
    /\ isLoadingStaffs = TRUE
    /\ isLoadingAttendance = TRUE
    /\ selectedStaffId = <<>>
    /\ attendanceTime = HrNow
    /\ attendanceDate = HrToday
    /\ manualStatus = "present"
    /\ isSubmitting = FALSE
    /\ submissionError = Null
    /\ editingRecord = 0
    /\ modalGen = 0
    /\ fetchedRecord = 0
    /\ isLoadingDetails = FALSE
    /\ checkInTime = <<>>
    /\ checkOutTime = <<>>
    /\ status = "present"
    /\ isSaving = FALSE
    /\ hrToast = "none"

(***************************************************************************)
(* DailyReportRegister (accounts-dashboard.tsx, and the copy of it in      *)
(* admin-tabs/expenses-tab-content.tsx): filteredReports.                  *)
(*                                                                         *)
(* A report is [id, date, category]; date is a character sequence or Null, *)
(* category a one-word sequence <<word>> or Null, the empty string <<>>.   *)
(***************************************************************************)

\* bound on the length of the list the register is given
MaxReports == 3

\* date values of a stored report: none, before and after the epoch, and a
\* string that is not a date
ReportDates ==
    {Null, DateString(1969, 12, 31), DateString(2024, 3, 10), <<"n", "/", "a">>}

\* category values of a stored report
ReportCategories == {Null, <<"amaze_ads">>, <<"crystal_wall_art">>}

\* the lists the register can be given; a report's id is its place in the list
ReportLists ==
    UNION {[1..n -> [date : ReportDates, category : ReportCategories]] : n \in 0..MaxReports}

WithIds(list) ==
    [i \in 1..Len(list) |-> [id |-> i, date |-> list[i].date, category |-> list[i].category]]

\* String.prototype.startsWith
StartsWith(str, prefix) ==
    Len(prefix) <= Len(str) /\ SubSeq(str, 1, Len(prefix)) = prefix

\* a register that forgets the category filter
filterReportsDateOnly(data, dFilter, cFilter) ==
    LET byDate(r) == ~Falsy(r.date) /\ StartsWith(r.date, dFilter)
    IN IF ~Falsy(dFilter) THEN SelectSeq(data, byDate) ELSE data

\* the two `data.filter` steps of filteredReports
filterReports(data, dFilter, cFilter) ==
    LET byDate(r)     == ~Falsy(r.date) /\ StartsWith(r.date, dFilter)
        byCategory(r) == r.category = cFilter
        d1 == IF ~Falsy(dFilter) THEN SelectSeq(data, byDate) ELSE data
    IN IF ~Falsy(cFilter) THEN SelectSeq(d1, byCategory) ELSE d1

\* a.date ? new Date(a.date).getTime() : 0, tabulated over the dates of the model
ReportTimes ==
    [d \in ReportDates |->
        IF Falsy(d) THEN [valid |-> TRUE, day |-> 0, ms |-> 0] ELSE ParseDate(d)]

dateMillis(r) == ReportTimes[r.date]

\* the comparator (a, b) => dateB - dateA, by sign; NaN counts as +0 in sort
compareDates(a, b) ==
    LET ta == dateMillis(a)
        tb == dateMillis(b)
    IN IF ~ta.valid \/ ~tb.valid THEN 0
       ELSE IF tb.day # ta.day THEN (IF tb.day > ta.day THEN 1 ELSE -1)
       ELSE IF tb.ms # ta.ms THEN (IF tb.ms > ta.ms THEN 1 ELSE -1)
       ELSE 0

\* Array.prototype.sort with a consistent comparator: a stable sort
RECURSIVE InsertSorted(_, _)
InsertSorted(x, sorted) ==
    IF sorted = <<>> THEN <<x>>
    ELSE IF compareDates(Head(sorted), x) > 0 THEN <<x>> \o sorted
    ELSE <<Head(sorted)>> \o InsertSorted(x, Tail(sorted))

RECURSIVE StableSortFrom(_, _, _)
StableSortFrom(data, i, acc) ==
    IF i > Len(data) THEN acc ELSE StableSortFrom(data, i + 1, InsertSorted(data[i], acc))

\* the comparator is no consistent ordering of data: some element compares
\* equal to two elements that do not compare equal to each other
InconsistentComparator(data) ==
    \E i, j, k \in 1..Len(data) :
        /\ compareDates(data[i], data[j]) = 0
        /\ compareDates(data[i], data[k]) = 0
        /\ compareDates(data[j], data[k]) # 0

\* the orders data.sort(comparator) can leave data in: implementation-defined
\* when the comparator is not consistent
SortResults(data) ==
    IF InconsistentComparator(data)
    THEN {[i \in 1..Len(data) |-> data[p[i]]] : p \in Permutations(1..Len(data))}
    ELSE {StableSortFrom(data, 1, <<>>)}

\* what the useMemo of filteredReports can evaluate to
FilteredReportsOf(list, dFilter, cFilter) == SortResults(filterReports(list, dFilter, cFilter))

\* values of the filter controls
DateFilters == {<<>>, DateString(2024, 3, 10)}

CategoryFilters == {<<>>, <<"amaze_ads">>, <<"crystal_wall_art">>}

\* the register rendered for a list, both filters empty
InitRegister ==
    /\ reports \in {WithIds(l) : l \in ReportLists}
    /\ dateFilter = <<>>
    /\ categoryFilter = <<>>
    /\ filteredReports \in FilteredReportsOf(reports, <<>>, <<>>)

\* the register is not mounted
IdleRegister ==
    /\ reports = <<>>
    /\ dateFilter = <<>>
    /\ categoryFilter = <<>>
    /\ filteredReports = <<>>

\* <Input type="date" value={dateFilter} onChange=...>, then the re-render
setDateFilter(v) ==
    /\ page = "register"
    /\ dateFilter # v
    /\ dateFilter' = v
    /\ filteredReports' \in FilteredReportsOf(reports, v, categoryFilter)
    /\ UNCHANGED <<reports, categoryFilter>>
    /\ UNCHANGED othersRegister

\* <select value={categoryFilter} onChange=...>, then the re-render
setCategoryFilter(v) ==
    /\ page = "register"
    /\ categoryFilter # v
    /\ categoryFilter' = v
    /\ filteredReports' \in FilteredReportsOf(reports, dateFilter, v)
    /\ UNCHANGED <<reports, dateFilter>>
    /\ UNCHANGED othersRegister

\* the Clear button, shown while a filter is set
clearFilters ==
    /\ page = "register"
    /\ ~Falsy(dateFilter) \/ ~Falsy(categoryFilter)
    /\ dateFilter' = <<>>
    /\ categoryFilter' = <<>>
    /\ filteredReports' \in FilteredReportsOf(reports, <<>>, <<>>)
    /\ UNCHANGED reports
    /\ UNCHANGED othersRegister

NextRegister ==
    \/ \E v \in DateFilters : setDateFilter(v)
    \/ \E v \in CategoryFilters : setCategoryFilter(v)
    \/ clearFilters

(***************************************************************************)
(* The attendance register of the HR dashboard (hr-dashboard.tsx):         *)
(* getComprehensiveAttendance filters the loaded records, and              *)
(* AttendanceRegisterSection groups them by date and orders the groups.    *)
(***************************************************************************)

MaxAttendance == 3

\* staff_name of the records of a staff member
StaffName(id) == IF id = 0 THEN <<"b", "a", "l", "a">> ELSE <<"a", "s", "h", "a">>

RegisterStaffIds == {0, 1}

AttendanceDates == {Null, DateString(2024, 3, 9), DateString(2024, 3, 10)}

\* status values of a stored record; "" stands for a missing status
AttendanceStatuses == {"present", "Absent", ""}

\* the lists the register can be given; a record's id is its place in the list
AttendanceLists ==
    UNION {[1..n -> [staff_id : RegisterStaffIds, date : AttendanceDates,
                     status : AttendanceStatuses]] : n \in 0..MaxAttendance}

WithStaff(list) ==
    [i \in 1..Len(list) |->
        [id |-> i, staff_id |-> list[i].staff_id, staff_name |-> StaffName(list[i].staff_id),
         date |-> list[i].date, status |-> list[i].status]]

\* the Select item "all"
AllStaff == <<"a", "l", "l">>

\* getComprehensiveAttendance
getComprehensiveAttendance(records, fStaff, fMonth, fDate) ==
    LET staffIdFilterNum == IF fStaff # AllStaff /\ fStaff # <<>> THEN parseInt(fStaff) ELSE 0
        truthy    == staffIdFilterNum # 0 /\ staffIdFilterNum # NaN
        byStaff(r) == r.staff_id = staffIdFilterNum
        byMonth(r) == ~Falsy(r.date) /\ StartsWith(r.date, fMonth)
        byDate(r)  == r.date = fDate
        d1 == IF truthy THEN SelectSeq(records, byStaff) ELSE records
    IN IF ~Falsy(fMonth) THEN SelectSeq(d1, byMonth)
       ELSE IF ~Falsy(fDate) THEN SelectSeq(d1, byDate)
       ELSE d1

\* new Date(record.date), tabulated over the dates of the model
AttendanceTimes == [d \in AttendanceDates \ {Null} |-> ParseDate(d)]

UnknownDate == [label |-> "Unknown Date", day |-> 0]

\* the group key of a record: the label toLocaleDateString('en-US', {year,
\* month: 'short', day}) gives for the local day of new Date(record.date),
\* held as that day's number
DateKey(date, zone) ==
    IF Falsy(date) THEN UnknownDate
    ELSE LET tv == AttendanceTimes[date]
         IN IF ~tv.valid THEN [label |-> "Invalid Date", day |-> 0]
            ELSE [label |-> "date",
                  day |-> (tv.day * 1440 + (tv.ms \div 60000) + zone) \div 1440]

\* STATUS_PRIORITY[(status || 'unknown').toLowerCase()] || 99
StatusPriority(st) ==
    LET lower == CASE st = "Absent" -> "absent"
                   [] st = "" -> "unknown"
                   [] OTHER -> st
    IN CASE lower = "present" -> 1
         [] lower = "late" -> 2
         [] lower = "half_day" -> 3
         [] lower = "leave" -> 4
         [] lower = "absent" -> 5
         [] OTHER -> 99

Letters ==
    <<"a", "b", "c", "d", "e", "f", "g", "h", "i", "j", "k", "l", "m",
      "n", "o", "p", "q", "r", "s", "t", "u", "v", "w", "x", "y", "z">>

\* a.localeCompare(b) for lower-case words, by sign
RECURSIVE localeCompare(_, _)
localeCompare(a, b) ==
    LET at(c) == CHOOSE i \in 1..26 : Letters[i] = c
    IN IF a = <<>> /\ b = <<>> THEN 0
       ELSE IF a = <<>> THEN -1
       ELSE IF b = <<>> THEN 1
       ELSE IF at(Head(a)) < at(Head(b)) THEN -1
       ELSE IF at(Head(a)) > at(Head(b)) THEN 1
       ELSE localeCompare(Tail(a), Tail(b))

\* the comparator of acc[dateStr].sort, by sign
compareRows(a, b) ==
    IF StatusPriority(a.status) # StatusPriority(b.status)
    THEN (IF StatusPriority(a.status) < StatusPriority(b.status) THEN -1 ELSE 1)
    ELSE localeCompare(a.staff_name, b.staff_name)

\* acc[dateStr].push(record); acc[dateStr].sort(...): the group was sorted, the
\* comparator is consistent, the sort stable
RECURSIVE PushSorted(_, _)
PushSorted(record, rows) ==
    IF rows = <<>> THEN <<record>>
    ELSE IF compareRows(Head(rows), record) > 0 THEN <<record>> \o rows
    ELSE <<Head(rows)>> \o PushSorted(record, Tail(rows))

\* data.reduce(...): the groups as [key, rows], in the order their keys were added
RECURSIVE GroupFrom(_, _, _, _)
GroupFrom(data, zone, i, acc) ==
    IF i > Len(data) THEN acc
    ELSE LET dateStr == DateKey(data[i].date, zone)
             at      == {k \in 1..Len(acc) : acc[k].key = dateStr}
         IN GroupFrom(data, zone, i + 1,
                IF at = {}
                THEN Append(acc, [key |-> dateStr, rows |-> <<data[i]>>])
                ELSE LET k == CHOOSE k \in at : TRUE
                     IN [acc EXCEPT ![k].rows = PushSorted(data[i], @)])

GroupedDataOf(data, zone) == GroupFrom(data, zone, 1, <<>>)

\* (a, b) => new Date(b).getTime() - new Date(a).getTime(), by sign; a label
\* that is no date gives NaN, which counts as +0 in sort
compareKeys(a, b) ==
    IF a.label # "date" \/ b.label # "date" THEN 0
    ELSE IF b.day > a.day THEN 1
    ELSE IF b.day < a.day THEN -1
    ELSE 0

RECURSIVE InsertKey(_, _)
InsertKey(x, sorted) ==
    IF sorted = <<>> THEN <<x>>
    ELSE IF compareKeys(Head(sorted), x) > 0 THEN <<x>> \o sorted
    ELSE <<Head(sorted)>> \o InsertKey(x, Tail(sorted))

RECURSIVE StableSortKeys(_, _, _)
StableSortKeys(keys, i, acc) ==
    IF i > Len(keys) THEN acc ELSE StableSortKeys(keys, i + 1, InsertKey(keys[i], acc))

\* the orders Object.keys(groupedData).sort(comparator) can yield:
\* implementation-defined when the comparator is not a consistent ordering
SortedDatesOf(groups) ==
    LET keys == [k \in 1..Len(groups) |-> groups[k].key]
        inconsistent ==
            \E i, j, k \in 1..Len(keys) :
                /\ compareKeys(keys[i], keys[j]) = 0
                /\ compareKeys(keys[i], keys[k]) = 0
                /\ compareKeys(keys[j], keys[k]) # 0
    IN IF inconsistent
       THEN {[i \in 1..Len(keys) |-> keys[p[i]]] : p \in Permutations(1..Len(keys))}
       ELSE {StableSortKeys(keys, 1, <<>>)}

\* values of the filter controls
MonthFilters == {<<>>, SubSeq(DateString(2024, 3, 10), 1, 7)}

DayFilters == {<<>>, DateString(2024, 3, 10)}

StaffFilters == {AllStaff} \cup {ToStr(id) : id \in RegisterStaffIds}

\* the render that follows a change of the filters
RenderAttendance ==
    /\ registerData' =
           getComprehensiveAttendance(loadedRecords, filterStaffId', filterMonth', filterDate')
    /\ groupedData' = GroupedDataOf(registerData', timeZone)
    /\ sortedDates' \in SortedDatesOf(groupedData')

\* the register rendered for a loaded list, no filter set
InitAttendance ==
    /\ loadedRecords \in {WithStaff(l) : l \in AttendanceLists}
    /\ timeZone \in {-300, 330}
    /\ filterDate = <<>>
    /\ filterStaffId = AllStaff
    /\ filterMonth = <<>>
    /\ registerData = loadedRecords
    /\ groupedData = GroupedDataOf(registerData, timeZone)
    /\ sortedDates \in SortedDatesOf(groupedData)

\* the attendance register is not mounted
IdleAttendance ==
    /\ loadedRecords = <<>>
    /\ timeZone = 0
    /\ filterDate = <<>>
    /\ filterStaffId = AllStaff
    /\ filterMonth = <<>>
    /\ registerData = <<>>
    /\ groupedData = <<>>
    /\ sortedDates = <<>>

\* a control that leaves the other filter as it is
otherFilterKept(v, other) == other

\* if (e.target.value) setFilterDate('') / setFilterMonth('')
otherFilterAfter(v, other) == IF ~Falsy(v) THEN <<>> ELSE other

\* <Input type="month" onChange={...}>: a month clears the date filter
setFilterMonth(v) ==
    /\ page = "attendance"
    /\ filterMonth # v
    /\ filterMonth' = v
    /\ filterDate' = otherFilterAfter(v, filterDate)
    /\ UNCHANGED <<loadedRecords, timeZone, filterStaffId>>
    /\ RenderAttendance
    /\ UNCHANGED othersAttendance

\* <Input type="date" onChange={...}>: a date clears the month filter
setFilterDate(v) ==
    /\ page = "attendance"
    /\ filterDate # v
    /\ filterDate' = v
    /\ filterMonth' = otherFilterAfter(v, filterMonth)
    /\ UNCHANGED <<loadedRecords, timeZone, filterStaffId>>
    /\ RenderAttendance
    /\ UNCHANGED othersAttendance

\* <Select value={filterStaffId} onValueChange={setFilterStaffId}>
setFilterStaffId(v) ==
    /\ page = "attendance"
    /\ filterStaffId # v
    /\ filterStaffId' = v
    /\ UNCHANGED <<loadedRecords, timeZone, filterDate, filterMonth>>
    /\ RenderAttendance
    /\ UNCHANGED othersAttendance

\* filterDate !== '' || filterMonth !== '' || filterStaffId !== 'all'
isFilterActive == filterDate # <<>> \/ filterMonth # <<>> \/ filterStaffId # AllStaff

\* the Clear button, rendered while isFilterActive
clearAttendanceFilters ==
    /\ page = "attendance"
    /\ isFilterActive
    /\ filterDate' = <<>>
    /\ filterMonth' = <<>>
    /\ filterStaffId' = AllStaff
    /\ UNCHANGED <<loadedRecords, timeZone>>
    /\ RenderAttendance
    /\ UNCHANGED othersAttendance

NextAttendance ==
    \/ \E v \in MonthFilters : setFilterMonth(v)
    \/ \E v \in DayFilters : setFilterDate(v)
    \/ \E v \in StaffFilters : setFilterStaffId(v)
    \/ clearAttendanceFilters

(***************************************************************************)
(* The project list of the admin order tab (order-tab-content.tsx):        *)
(* filteredOrders keeps the orders that pass the search term and the       *)
(* status, staff, category and completion date filters.                    *)
(***************************************************************************)

MaxOrders == 2

Uppers ==
    <<"A", "B", "C", "D", "E", "F", "G", "H", "I", "J", "K", "L", "M",
      "N", "O", "P", "Q", "R", "S", "T", "U", "V", "W", "X", "Y", "Z">>

\* String.prototype.toLowerCase
toLowerCase(s) ==
    [i \in 1..Len(s) |->
        IF \E k \in 1..26 : Uppers[k] = s[i]
        THEN Letters[CHOOSE k \in 1..26 : Uppers[k] = s[i]]
        ELSE s[i]]

\* String.prototype.includes
includes(s, term) ==
    \E i \in 0..(Len(s) - Len(term)) : SubSeq(s, i + 1, i + Len(term)) = term

Asha == <<"a", "s", "h", "a">>

AmazeAds == <<"a", "m", "a", "z", "e", "_", "a", "d", "s">>

Completed == <<"c", "o", "m", "p", "l", "e", "t", "e", "d">>

Noon == <<"T", "1", "2", ":", "0", "0", ":", "0", "0", ".", "0", "0", "0", "Z">>

\* the orders of the model: text in one of the searched fields or in none,
\* status and category in either case or absent, completion date absent, a
\* date or an instant; the last is an order with nothing but its id, and
\* that 0
SampleOrders ==
    {[id |-> 12, description |-> <<"W", "a", "l", "l">>, customer_name |-> Null,
      product_name |-> Null, generated_order_id |-> Null,
      status |-> <<"C", "o", "m", "p", "l", "e", "t", "e", "d">>,
      created_by_staff_name |-> Asha, category |-> AmazeAds,
      completion_date |-> DateString(2024, 3, 10)],
     [id |-> 7, description |-> Null, customer_name |-> <<"w", "a", "l", "l", "y">>,
      product_name |-> Null, generated_order_id |-> <<"A", "M", "-", "1", "2">>,
      status |-> <<"p", "e", "n", "d", "i", "n", "g">>,
      created_by_staff_name |-> <<"b", "a", "l", "a">>, category |-> Null,
      completion_date |-> Null],
     [id |-> 3, description |-> Null, customer_name |-> Null,
      product_name |-> <<"s", "i", "g", "n">>, generated_order_id |-> Null,
      status |-> Null, created_by_staff_name |-> Null,
      category |-> <<"A", "M", "A", "Z", "E", "_", "A", "D", "S">>,
      completion_date |-> DateString(2024, 3, 10) \o Noon],
     [id |-> 4, description |-> <<>>, customer_name |-> Null,
      product_name |-> Null, generated_order_id |-> Null,
      status |-> Completed, created_by_staff_name |-> Asha, category |-> AmazeAds,
      completion_date |-> DateString(2024, 3, 9) \o Noon],
     [id |-> 5, description |-> <<"w", "a", "l", "l">>, customer_name |-> Null,
      product_name |-> Null, generated_order_id |-> Null,
      status |-> Completed, created_by_staff_name |-> Asha, category |-> AmazeAds,
      completion_date |-> DateString(2024, 3, 11)],
     [id |-> 0, description |-> Null, customer_name |-> Null,
      product_name |-> Null, generated_order_id |-> Null,
      status |-> Null, created_by_staff_name |-> Null, category |-> Null,
      completion_date |-> Null]}

OrderLists == UNION {[1..n -> SampleOrders] : n \in 0..MaxOrders}

\* new Date(s), tabulated over the completion dates and filter dates of the model
OrderTimes ==
    [d \in {o.completion_date : o \in SampleOrders} \ {Null} |-> ParseDate(d)]

\* an instant [day, ms] is not later than another
NotAfter(a, b) == a.day < b.day \/ (a.day = b.day /\ a.ms <= b.ms)

\* d.setHours(h, m, s, ms) on the Date of instant tv in a zone `zone` minutes
\* east of UTC: that time of tv's local day
setHours(tv, zone, minuteOfDay, msOfMinute) ==
    LET localDay == (tv.day * 1440 + (tv.ms \div 60000) + zone) \div 1440
        minutes  == localDay * 1440 + minuteOfDay - zone
    IN [valid |-> TRUE, day |-> minutes \div 1440,
        ms |-> (minutes % 1440) * 60000 + msOfMinute]

\* the date check of filteredOrders; a comparison with NaN is false
matchesDate(order, from, to, zone) ==
    LET completion == IF Falsy(order.completion_date) THEN InvalidDate
                      ELSE OrderTimes[order.completion_date]
    IN (~Falsy(from) \/ ~Falsy(to)) =>
          /\ ~Falsy(order.completion_date)
          /\ completion.valid
          /\ ~Falsy(from) => NotAfter(setHours(ParseDate(from), zone, 0, 0), completion)
          /\ ~Falsy(to) => NotAfter(completion, setHours(ParseDate(to), zone, 1439, 59999))

\* the predicate of orders.filter in filteredOrders
matchesOrder(order, term, fStatus, fStaff, fCategory, from, to, zone) ==
    LET inText(field) == ~Falsy(field) /\ includes(toLowerCase(field), toLowerCase(term))
        matchesSearch ==
            \/ inText(order.description)
            \/ inText(order.customer_name)
            \/ inText(order.product_name)
            \/ order.id # 0 /\ includes(ToStr(order.id), term)
            \/ inText(order.generated_order_id)
        matchesStatus ==
            fStatus = AllStaff
               \/ (order.status # Null /\ toLowerCase(order.status) = toLowerCase(fStatus))
        matchesStaff == fStaff = AllStaff \/ order.created_by_staff_name = fStaff
        matchesCategory ==
            fCategory = AllStaff
               \/ (order.category # Null /\ toLowerCase(order.category) = toLowerCase(fCategory))
    IN matchesSearch /\ matchesStatus /\ matchesStaff /\ matchesCategory
          /\ matchesDate(order, from, to, zone)

\* the re-render after a filter changed
RenderOrders ==
    LET keep(order) ==
            matchesOrder(order, searchTerm', statusFilter', staffFilter',
                         projectCategoryFilter', fromDate', toDate', localZone)
    IN filteredOrders' = SelectSeq(orders, keep)

\* the list rendered for the orders it is given, no filter set
InitOrders ==
    /\ orders \in OrderLists
    /\ localZone \in {-300, 330}
    /\ searchTerm = <<>>
    /\ statusFilter = AllStaff
    /\ staffFilter = AllStaff
    /\ projectCategoryFilter = AllStaff
    /\ fromDate = <<>>
    /\ toDate = <<>>
    /\ filteredOrders =
           LET keep(order) ==
                   matchesOrder(order, <<>>, AllStaff, AllStaff, AllStaff, <<>>, <<>>, localZone)
           IN SelectSeq(orders, keep)

\* the order tab is not mounted
IdleOrders ==
    /\ orders = <<>>
    /\ localZone = 0
    /\ searchTerm = <<>>
    /\ statusFilter = AllStaff
    /\ staffFilter = AllStaff
    /\ projectCategoryFilter = AllStaff
    /\ fromDate = <<>>
    /\ toDate = <<>>
    /\ filteredOrders = <<>>

\* <Input value={searchTerm} onChange={(e) => setSearchTerm(e.target.value)}>
setSearchTerm(v) ==
    /\ page = "orders"
    /\ searchTerm # v
    /\ searchTerm' = v
    /\ UNCHANGED <<orders, localZone, statusFilter, staffFilter, projectCategoryFilter,
                   fromDate, toDate>>
    /\ RenderOrders
    /\ UNCHANGED othersOrders

\* <Select value={statusFilter} onValueChange={setStatusFilter}>
setStatusFilter(v) ==
    /\ page = "orders"
    /\ statusFilter # v
    /\ statusFilter' = v
    /\ UNCHANGED <<orders, localZone, searchTerm, staffFilter, projectCategoryFilter,
                   fromDate, toDate>>
    /\ RenderOrders
    /\ UNCHANGED othersOrders

\* <Select value={staffFilter} onValueChange={setStaffFilter}>
setStaffFilter(v) ==
    /\ page = "orders"
    /\ staffFilter # v
    /\ staffFilter' = v
    /\ UNCHANGED <<orders, localZone, searchTerm, statusFilter, projectCategoryFilter,
                   fromDate, toDate>>
    /\ RenderOrders
    /\ UNCHANGED othersOrders

\* <Select value={categoryFilter} onValueChange={setCategoryFilter}> of the order tab
setProjectCategoryFilter(v) ==
    /\ page = "orders"
    /\ projectCategoryFilter # v
    /\ projectCategoryFilter' = v
    /\ UNCHANGED <<orders, localZone, searchTerm, statusFilter, staffFilter, fromDate, toDate>>
    /\ RenderOrders
    /\ UNCHANGED othersOrders

\* <Input type="date" value={fromDate} onChange=...>
setFromDate(v) ==
    /\ page = "orders"
    /\ fromDate # v
    /\ fromDate' = v
    /\ UNCHANGED <<orders, localZone, searchTerm, statusFilter, staffFilter,
                   projectCategoryFilter, toDate>>
    /\ RenderOrders
    /\ UNCHANGED othersOrders

\* <Input type="date" value={toDate} onChange=...>
setToDate(v) ==
    /\ page = "orders"
    /\ toDate # v
    /\ toDate' = v
    /\ UNCHANGED <<orders, localZone, searchTerm, statusFilter, staffFilter,
                   projectCategoryFilter, fromDate>>
    /\ RenderOrders
    /\ UNCHANGED othersOrders

NextOrders ==
    \/ \E v \in {<<>>, <<"W", "A", "L", "L">>, <<"1", "2">>} : setSearchTerm(v)
    \/ \E v \in {AllStaff, Completed} : setStatusFilter(v)
    \/ \E v \in {AllStaff, Asha} : setStaffFilter(v)
    \/ \E v \in {AllStaff, AmazeAds} : setProjectCategoryFilter(v)
    \/ \E v \in DayFilters : setFromDate(v)
    \/ \E v \in DayFilters : setToDate(v)

(***************************************************************************)
(* The daily report form on its own (DailyReportUpload,                    *)
(* accounts-dashboard.tsx): its amount fields, the two read-only totals    *)
(* the auto-calculate effect maintains, and the payload handleSubmit       *)
(* builds.  Amounts are whole rupees, for which JavaScript's number        *)
(* arithmetic is exact.                                                    *)
(***************************************************************************)

AccountFields ==
    {"ibo_420", "decor_uj", "anil_fed", "remya_fed", "kdb_186", "kgb_070", "kiran_uj", "cheque"}

CollectionFields == {"sale_order_collection", "sale_order_balance_amount"}

\* the dependency list of the auto-calculate effect
InputFields == AccountFields \cup CollectionFields

TotalFields == {"total_day_collection", "total_amount_on_ac"}

AmountFields == InputFields \cup TotalFields

UploadFields == AmountFields \cup {"category"}

\* a number field of a stored report or of a payload that is null
NullNumber == -2147483646

\* parseFloat over the strings an <input type="number"> yields: an optional
\* minus sign and decimal digits; the empty string gives NaN
parseFloat(s) ==
    IF s = <<>> THEN NaN
    ELSE IF Head(s) = "-"
         THEN IF Len(s) > 1 /\ \A i \in 2..Len(s) : IsDigit(s[i])
              THEN 0 - DigitsValue(Tail(s), 0)
              ELSE NaN
         ELSE Number(s)

\* x || 0
OrZero(n) == IF n = NaN \/ n = 0 THEN 0 ELSE n

\* x || null
OrNull(n) == IF n = NaN \/ n = 0 THEN NullNumber ELSE n

\* String(x ?? '')
StringOrEmpty(n) == IF n = NullNumber THEN <<>> ELSE ToStr(n)

\* sum > 0 ? String(sum) : ''
ShownTotal(sum) == IF sum > 0 THEN ToStr(sum) ELSE <<>>

\* one value of EXPENSE_CATEGORIES, as the <select> yields it
ChosenCategory == <<"a", "d", "s">>

\* DailyReportUpload.initialFormState, the amount fields and the category
initialUploadState == [k \in UploadFields |-> <<>>]

\* the auto-calculate effect: setFormData(prev => ({...prev, totals}))
autoCalculate(fd) ==
    LET saleCollection == OrZero(parseFloat(fd["sale_order_collection"]))
        saleBalance    == OrZero(parseFloat(fd["sale_order_balance_amount"]))
        newTotalDayCollection == saleCollection + saleBalance
        ibo    == OrZero(parseFloat(fd["ibo_420"]))
        decor  == OrZero(parseFloat(fd["decor_uj"]))
        anil   == OrZero(parseFloat(fd["anil_fed"]))
        remya  == OrZero(parseFloat(fd["remya_fed"]))
        kdb    == OrZero(parseFloat(fd["kdb_186"]))
        kgb    == OrZero(parseFloat(fd["kgb_070"]))
        kiran  == OrZero(parseFloat(fd["kiran_uj"]))
        cheque == OrZero(parseFloat(fd["cheque"]))
        newTotalAC == ibo + decor + anil + remya + kdb + kgb + kiran + cheque
    IN [fd EXCEPT !["total_day_collection"] = ShownTotal(newTotalDayCollection),
                  !["total_amount_on_ac"] = ShownTotal(newTotalAC)]

\* the render after formData went from prev to next: the auto-calculate
\* effect runs again when one of its dependencies changed
EffectsSettled(prev, next) ==
    IF \E k \in InputFields : next[k] # prev[k] THEN autoCalculate(next) ELSE next

\* reports the backend can hold: report 1 was stored by this form, report 2
\* carries totals but none of the account columns, report 3 has no amounts
StoredReports ==
    LET none == [k \in AmountFields |-> NullNumber]
    IN <<[none EXCEPT !["ibo_420"] = 5, !["cheque"] = 7, !["total_amount_on_ac"] = 12,
                      !["sale_order_collection"] = 7, !["total_day_collection"] = 7],
         [none EXCEPT !["total_amount_on_ac"] = 12, !["total_day_collection"] = 9],
         none>>

StoredReportIds == 1..Len(StoredReports)

\* the reportToEdit effect: the form a stored report loads into
LoadedForm(id) ==
    [k \in UploadFields |->
        IF k = "category" THEN ChosenCategory ELSE StringOrEmpty(StoredReports[id][k])]

\* values the user gives a field
FieldValues(name) ==
    CASE name = "category" -> {<<>>, ChosenCategory}
      [] name = "ibo_420" -> {<<>>, <<"0">>, <<"5">>, <<"-", "5">>}
      [] name = "sale_order_balance_amount" -> {<<>>, <<"7">>, <<"-", "7">>}
      [] name \in {"cheque", "sale_order_collection"} -> {<<>>, <<"7">>}
      [] OTHER -> {<<>>, <<"5">>}

NotSent == [sent |-> FALSE, body |-> [k \in AmountFields |-> NullNumber]]

\* the form after its mount with no report to edit: both effects have run
InitUpload ==
    /\ uploadForm = EffectsSettled(initialUploadState, initialUploadState)
    /\ reportToEdit = 0
    /\ uploadPayload = NotSent

\* the form is not mounted
IdleUpload ==
    /\ uploadForm = initialUploadState
    /\ reportToEdit = 0
    /\ uploadPayload = NotSent

\* handleChange of an input or of the category select (the two totals are
\* readOnly), then the effects
uploadHandleChange(name, value) ==
    /\ page = "upload"
    /\ ~uploadPayload.sent
    /\ name \in UploadFields \ TotalFields
    /\ uploadForm[name] # value
    /\ uploadForm' = EffectsSettled(uploadForm, [uploadForm EXCEPT ![name] = value])
    /\ UNCHANGED <<reportToEdit, uploadPayload>>
    /\ UNCHANGED othersUpload

\* the parent sets reportToEdit (handleEditClick).  The form either is
\* mounted at that moment with the prop already set (fresh: its state is
\* initialFormState, the reportToEdit effect loads the report and the
\* auto-calculate effect runs on the initial state, then again if an input
\* differs from it), or it was mounted before and the prop changes.
uploadEditReport(id, fresh) ==
    /\ page = "upload"
    /\ ~uploadPayload.sent
    /\ reportToEdit # id
    /\ reportToEdit' = id
    /\ uploadForm' =
           IF fresh
           THEN EffectsSettled(initialUploadState,
                               [LoadedForm(id) EXCEPT !["total_day_collection"] = <<>>,
                                                      !["total_amount_on_ac"] = <<>>])
           ELSE EffectsSettled(uploadForm, LoadedForm(id))
    /\ UNCHANGED uploadPayload
    /\ UNCHANGED othersUpload

\* onCancelEdit: reportToEdit becomes null and the effect resets the form
uploadCancelEdit ==
    /\ page = "upload"
    /\ ~uploadPayload.sent
    /\ reportToEdit # 0
    /\ reportToEdit' = 0
    /\ uploadForm' = EffectsSettled(uploadForm, initialUploadState)
    /\ UNCHANGED uploadPayload
    /\ UNCHANGED othersUpload

\* handleSubmit up to its await (the date field holds today's date): the
\* payload handed to onReportCreate / onReportUpdate
uploadHandleSubmit ==
    /\ page = "upload"
    /\ ~uploadPayload.sent
    /\ IF Falsy(uploadForm["category"])
       THEN UNCHANGED uploadPayload
       ELSE uploadPayload' =
                [sent |-> TRUE,
                 body |-> [k \in AmountFields |-> OrNull(parseFloat(uploadForm[k]))]]
    /\ UNCHANGED <<uploadForm, reportToEdit>>
    /\ UNCHANGED othersUpload

NextUpload ==
    \/ \E name \in UploadFields : \E v \in FieldValues(name) : uploadHandleChange(name, v)
    \/ \E id \in StoredReportIds : \E fresh \in BOOLEAN : uploadEditReport(id, fresh)
    \/ uploadCancelEdit
    \/ uploadHandleSubmit

\* no list view is mounted
IdleViews == IdleRegister /\ IdleAttendance /\ IdleOrders /\ IdleUpload

(***************************************************************************)
(* Specifications                                                          *)
(***************************************************************************)

\* the time conversions on their own
InitSpecTime == page = "none" /\ InitTime /\ InitApi /\ IdleAcc /\ IdleHR /\ IdleViews

SpecTime == InitSpecTime /\ [][NextTime]_vars

\* stored time values through display, edit input and Save
InitSpecStored == page = "none" /\ InitStored /\ InitApi /\ IdleAcc /\ IdleHR /\ IdleViews

SpecStored == InitSpecStored /\ [][NextStored]_vars

\* one client function at a time, against every outcome of its fetch
InitSpecApi == page = "none" /\ IdleTime /\ InitApi /\ IdleAcc /\ IdleHR /\ IdleViews

SpecApi == InitSpecApi /\ [][NextApi]_vars

\* the accounts dashboard with its backend
InitSpecAcc == page = "accounts" /\ IdleTime /\ InitApi /\ InitAcc /\ IdleHR /\ IdleViews

SpecAcc == InitSpecAcc /\ [][NextAcc]_vars

\* the HR dashboard with its backend
InitSpecHR == page = "hr" /\ IdleTime /\ InitApi /\ IdleAcc /\ InitHR /\ IdleViews

SpecHR == InitSpecHR /\ [][NextHR]_vars

\* either dashboard, whichever the signed-in role mounts
Init ==
    /\ IdleTime
    /\ InitApi
    /\ IdleViews
    /\ \/ page = "accounts" /\ InitAcc /\ IdleHR
       \/ page = "hr" /\ IdleAcc /\ InitHR

\* the report register on its own
InitSpecRegister ==
    /\ page = "register" /\ IdleTime /\ InitApi /\ IdleAcc /\ IdleHR
    /\ InitRegister /\ IdleAttendance /\ IdleOrders /\ IdleUpload

SpecRegister == InitSpecRegister /\ [][NextRegister]_vars

\* the attendance register over every loaded list of the model
InitSpecAttendance ==
    /\ page = "attendance" /\ IdleTime /\ InitApi /\ IdleAcc /\ IdleHR
    /\ IdleRegister /\ InitAttendance /\ IdleOrders /\ IdleUpload

SpecAttendance == InitSpecAttendance /\ [][NextAttendance]_vars

\* the project list over every list of sample orders
InitSpecOrders ==
    /\ page = "orders" /\ IdleTime /\ InitApi /\ IdleAcc /\ IdleHR
    /\ IdleRegister /\ IdleAttendance /\ InitOrders /\ IdleUpload

SpecOrders == InitSpecOrders /\ [][NextOrders]_vars

\* the daily report form over every sequence of edits and loads
InitSpecUpload ==
    /\ page = "upload" /\ IdleTime /\ InitApi /\ IdleAcc /\ IdleHR
    /\ IdleRegister /\ IdleAttendance /\ IdleOrders /\ InitUpload

SpecUpload == InitSpecUpload /\ [][NextUpload]_vars

Next == NextAcc \/ NextHR

Spec == Init /\ [][Next]_vars

\* every request in flight settles: the browser's fetch resolves or rejects in
\* finite time and the continuation awaiting it is then run.  Nothing obliges
\* the user to act.
Settling ==
    /\ WF_vars(\E r \in accNet : \E o \in Outcomes : Deliver(r, o))
    /\ WF_vars(\E r \in hrNet : \E res \in HrResults : HrDeliver(r, res))

SpecLive == Init /\ [][Next]_vars /\ Settling

(***************************************************************************)
(* Claims                                                                  *)
(***************************************************************************)

(***************************************************************************)
(* C1 (SpecTime): for every valid date and HH:MM, decoding the instant     *)
(* that either encoder produced returns exactly the original zero-padded   *)
(* HH:MM.                                                                  *)
(***************************************************************************)
C1_RoundTrip ==
    tPc = "decoded" => tOut.modal = tTime /\ tOut.form = tTime

\* a decoded round trip of a time whose hour and minute both need zero padding,
\* in a browser that is not on UTC
C1_Witness ==
    /\ tPc = "decoded"
    /\ tTime = <<"0", "7", ":", "0", "9">>
    /\ tOut.modal = <<"0", "7", ":", "0", "9">>
    /\ tzOffset # 0

(***************************************************************************)
(* C2 (SpecTime): both encoders produce '<dateStr>T<HH>:<MM>:00.000Z' for  *)
(* every valid date and time, whatever the browser timezone.               *)
(***************************************************************************)
C2_EncoderIsLiteralUTC ==
    tPc # "input" =>
        /\ tIsoModal = tDate \o <<"T">> \o tTime \o <<":", "0", "0", ".", "0", "0", "0", "Z">>
        /\ tIsoForm = tIsoModal

(***************************************************************************)
(* C3 (SpecAcc): a submit of the daily-report form with the category or    *)
(* the date empty issues no create or update call, does not set the        *)
(* submitting flag and leaves the form values as they were.                *)
(***************************************************************************)
C3_InvalidSubmitRejected ==
    [][(handleSubmit /\ (formData.category = "" \/ formData.date = ""))
          => /\ accNet' = accNet
             /\ accCalls' = accCalls
             /\ accFetches' = accFetches
             /\ ~uploadIsSubmitting'
             /\ formData' = formData]_vars

\* the form was submitted without a category and nothing but the mount fetch
\* was ever called
C3_Witness ==
    /\ accToast = "Validation Error"
    /\ formData.category = ""
    /\ formData.date # ""
    /\ ~uploadIsSubmitting
    /\ accCalls = 1

(***************************************************************************)
(* C4 (SpecHR): a check-in with staff, date or time missing, and a         *)
(* check-out with staff, date, time or status missing, issues no request   *)
(* and leaves isSubmitting false and submissionError and the attendance    *)
(* list unchanged.                                                         *)
(***************************************************************************)
C4_MissingInputsBlocked ==
    [][(\/ /\ handleCheckInSubmit
           /\ Falsy(selectedStaffId) \/ Falsy(attendanceDate) \/ Falsy(attendanceTime)
        \/ /\ handleCheckOutSubmit
           /\ \/ Falsy(selectedStaffId) \/ Falsy(attendanceDate) \/ Falsy(attendanceTime)
              \/ manualStatus = "")
          => /\ hrNet' = hrNet
             /\ hrOps' = hrOps
             /\ ~isSubmitting'
             /\ submissionError' = submissionError
             /\ attendanceRecords' = attendanceRecords]_vars

\* a check-in was pressed with the date cleared: the validation toast is up and
\* no request was ever started
C4_Witness ==
    /\ hrToast = "Please select staff, date, and time for check-in."
    /\ ~Falsy(selectedStaffId)
    /\ Falsy(attendanceDate)
    /\ ~isSubmitting
    /\ hrOps = 0

(***************************************************************************)
(* C5 (SpecHR): Save in the edit modal issues no update request when the   *)
(* record has no date, or when the check-in time is empty and the status   *)
(* is neither absent nor leave; the modal then stays open and isSaving is  *)
(* false afterwards.  With status absent or leave an empty check-in time   *)
(* is accepted and the update is sent with checkin_time null.              *)
(***************************************************************************)
C5_SaveValidation ==
    [][handleSave =>
          /\ (\/ Falsy(activeRecord.date)
              \/ Falsy(checkInTime) /\ status \notin {"absent", "leave"})
                => /\ hrNet' = hrNet
                   /\ editingRecord' = editingRecord
                   /\ ~isSaving'
          /\ (/\ ~Falsy(activeRecord.date)
              /\ Falsy(checkInTime)
              /\ status \in {"absent", "leave"})
                => \E r \in hrNet' \ hrNet : /\ r.fn = "updateAttendance"
                                             /\ r.payload.checkin_time = Null]_vars

(***************************************************************************)
(* C6 (SpecApi): every client function resolves, whatever the outcome of   *)
(* its fetch (ok response, non-ok response, network failure, unparseable   *)
(* body), and the value it resolves with carries exactly one of data and   *)
(* error: data and no error for an ok response with a JSON body, an error  *)
(* string and no data otherwise.                                           *)
(***************************************************************************)
C6_ResolvesWithDataOrError ==
    apiPc = "settled" =>
        /\ apiResult.settled = "resolved"
        /\ Cardinality(apiResult.has) = 1
        /\ apiResult.has = {"data"}
             <=> (apiOutcome.reached /\ apiOutcome.ok /\ apiOutcome.parseable)
        /\ apiResult.has = {"data"} => apiResult.error = Null
        /\ apiResult.has = {"error"} => ~Falsy(apiResult.error)

\* a delete whose fetch rejected (network failure) has resolved with an error
C6_Witness ==
    /\ apiPc = "settled"
    /\ apiCall.fn = "delete"
    /\ ~apiOutcome.reached
    /\ apiResult.settled = "resolved"
    /\ apiResult.has = {"error"}

(***************************************************************************)
(* C7 (SpecApi): for a non-ok response the returned error string is the    *)
(* body's detail when that is present and non-empty, and the operation's   *)
(* default message otherwise.                                              *)
(***************************************************************************)
C7_DetailOrDefault ==
    (apiPc = "settled" /\ apiOutcome.reached /\ ~apiOutcome.ok) =>
        apiResult.error = IF apiOutcome.parseable /\ ~Falsy(apiOutcome.detail)
                          THEN apiOutcome.detail
                          ELSE DefaultMessage(apiCall.fn, apiCall.id)

C10_OneModalRequest ==
    editingRecord # 0 =>
        Cardinality({r \in hrNet : r.gen = modalGen}) <= 1

(***************************************************************************)
(* C11 (Spec): when a report create, update or delete, or an attendance    *)
(* check-in, check-out or edit settles with data, the list request         *)
(* (getAllDailySalesReports / getAllAttendance) is issued in the same      *)
(* step; when it settles with an error no request is issued and the stored *)
(* list stays as it was.                                                   *)
(***************************************************************************)
C11_RefetchAfterMutation ==
    [][/\ \A r \in accNet : \A o \in Outcomes :
            (Deliver(r, o) /\ r.fn \in {"create", "update", "delete"})
               => IF Succeeded(ClientResult(r.fn, r.id, o))
                  THEN \E q \in accNet' \ accNet :
                          /\ q.fn = "getAll"
                          /\ q.st = "sent"
                          /\ accNet' = (accNet \ {r}) \cup {q}
                  ELSE /\ accNet' = accNet \ {r}
                       /\ reportHistory' = reportHistory
       /\ \A r \in hrNet : \A res \in HrResults :
            (/\ HrDeliver(r, res)
             /\ r.fn \in {"createAttendance", "checkoutAttendance", "updateAttendance"})
               => IF res.ok
                  THEN \E q \in hrNet' \ hrNet :
                          /\ q.fn = "getAllAttendance"
                          /\ q.st = "sent"
                          /\ hrNet' = (hrNet \ {r}) \cup {q}
                  ELSE /\ hrNet' = hrNet \ {r}
                       /\ attendanceRecords' = attendanceRecords]_vars

\* a check-out was accepted and the attendance list is being fetched again
C11_Witness ==
    /\ page = "hr"
    /\ hrToast = "Check-Out Recorded"
    /\ \E q \in hrNet : q.fn = "getAllAttendance" /\ q.cont = "checkout" /\ q.st = "sent"

(***************************************************************************)
(* C12 (SpecRegister): the register displays exactly the reports that pass *)
(* the filters, each once: with a category filter set, those whose         *)
(* category equals it (and, with a date filter set, whose date starts with *)
(* it); with both filters empty, every report.                             *)
(***************************************************************************)
C12_FilterExact ==
    page = "register" =>
        LET passes(r) ==
                /\ categoryFilter # <<>> => r.category = categoryFilter
                /\ dateFilter # <<>> => r.date # Null /\ StartsWith(r.date, dateFilter)
            expected == {reports[i] : i \in {j \in 1..Len(reports) : passes(reports[j])}}
            shown    == {filteredReports[i] : i \in 1..Len(filteredReports)}
        IN /\ shown = expected
           /\ Len(filteredReports) = Cardinality(expected)
           /\ (categoryFilter = <<>> /\ dateFilter = <<>>) => Len(filteredReports) = Len(reports)

\* a category is selected: a report of that category is displayed, one without
\* a category and one of another category are not
C12_Witness ==
    /\ page = "register"
    /\ categoryFilter = <<"amaze_ads">>
    /\ Len(reports) = 3
    /\ Len(filteredReports) = 1
    /\ \E i \in 1..3 : reports[i].category = Null
    /\ \E i \in 1..3 : reports[i].category = <<"crystal_wall_art">>

(***************************************************************************)
(* C13 (SpecRegister): the displayed reports are ordered by date           *)
(* descending, undated reports last, for every list and filter setting;    *)
(* the displayed list is a rearrangement of the filtered reports.          *)
(***************************************************************************)
C13_SortedByDateDesc ==
    page = "register" =>
        LET n == Len(filteredReports)
            undated(r) == Falsy(r.date)
            later(a, b) ==      \* a's date is at or after b's
                LET ta == ReportTimes[a.date]
                    tb == ReportTimes[b.date]
                IN (ta.valid /\ tb.valid) =>
                      (ta.day > tb.day \/ (ta.day = tb.day /\ ta.ms >= tb.ms))
        IN /\ \A i, j \in 1..n :
                (i < j /\ ~undated(filteredReports[i]) /\ ~undated(filteredReports[j]))
                   => later(filteredReports[i], filteredReports[j])
           /\ \A i, j \in 1..n :
                (i < j /\ undated(filteredReports[i])) => undated(filteredReports[j])

(***************************************************************************)
(* C14 (SpecHR): the HR dashboard never issues a delete request for an     *)
(* attendance record.  The requests it issues are the three reads and      *)
(* createAttendance, checkoutAttendance and updateAttendance; a            *)
(* createAttendance is issued only by a check-in and carries staff_id,     *)
(* date, status and checkin_time, a checkoutAttendance only by a check-out *)
(* and an updateAttendance only by Save in the edit modal.                 *)
(***************************************************************************)
C14_NoAttendanceDelete ==
    /\ [](\A r \in hrNet :
            /\ r.fn \in {"getActiveStaffs", "getAllAttendance", "getAttendanceById",
                         "createAttendance", "checkoutAttendance", "updateAttendance"}
            /\ r.fn = "createAttendance" =>
                  /\ r.payload.staff_id \in StaffIds
                  /\ ~Falsy(r.payload.date)
                  /\ r.payload.status \in {"present", "late", "absent", "leave", "half_day"}
                  /\ r.payload.checkin_time \notin {Null, RangeError, <<>>})
    /\ [][\A r \in hrNet' \ hrNet :
             r.st = "sent" =>
                /\ r.fn = "createAttendance" => handleCheckInSubmit
                /\ r.fn = "checkoutAttendance" => handleCheckOutSubmit
                /\ r.fn = "updateAttendance" => handleSave]_vars

\* a record created by a check-in is being checked out
C14_Witness ==
    /\ page = "hr"
    /\ 1 \in hrServer
    /\ \E r \in hrNet : r.fn = "checkoutAttendance" /\ r.cont = "checkout"

(***************************************************************************)
(* C15 (SpecStored): edge cases of the time conversion.  Encoding an empty *)
(* time yields null.  Decoding a null or empty stored value yields the     *)
(* empty string for the edit input and N/A for display.  Decoding a stored *)
(* value that is no parseable timestamp but contains a ':' yields its      *)
(* first two colon-separated parts joined by ':'.  Neither encoding nor    *)
(* decoding throws, whatever the input.                                    *)
(***************************************************************************)
C15_EdgeCases ==
    /\ tPc \in {"opened", "saved"} =>
          /\ Falsy(tStored) => (tOut.modal = <<>> /\ tShown = <<"N", "/", "A">>)
          /\ (/\ ~Falsy(tStored)
              /\ ~ParseDate(tStored).valid
              /\ \E i \in 1..Len(tStored) : tStored[i] = ":")
                => tOut.modal = Split(tStored, ":")[1] \o <<":">> \o Split(tStored, ":")[2]
          /\ tOut.modal # RangeError
          /\ tShown # RangeError
    /\ tPc = "saved" =>
          /\ Falsy(tTime) => tIsoModal = Null
          /\ tIsoModal # RangeError

(***************************************************************************)
(* C16 (SpecHR): when a check-in or check-out request returns an error or  *)
(* throws, submissionError becomes a non-empty string (the API's message,  *)
(* or a fallback text when the API gave none), the form's staff, date,     *)
(* time and status are left as entered, and submissionError returns to     *)
(* null only when the dialog is closed or a new submission starts.         *)
(***************************************************************************)
C16_SubmitFailureSurfaced ==
    [][/\ \A r \in hrNet : \A res \in HrResults :
            (Catches(r.fn) /\ ~res.ok /\ HrDeliver(r, res))
               => /\ submissionError' # Null
                  /\ submissionError' # <<>>
                  /\ \A i \in 1..Len(submissionError') : submissionError'[i] # ""
                  /\ (~res.thrown /\ ~Falsy(res.error)) => submissionError' = res.error
                  /\ UNCHANGED formVars
       /\ (submissionError # Null /\ submissionError' = Null)
             => (closeSubmissionError \/ handleCheckInSubmit \/ handleCheckOutSubmit)
      ]_vars

\* a check-in failed without a message: the fallback text is shown and the
\* form still holds the selected staff
C16_Witness ==
    /\ page = "hr"
    /\ submissionError = <<"Unknown API error during check-in.">>
    /\ hrToast = "Check-In Failed"
    /\ selectedStaffId = ToStr(1)
    /\ ~isSubmitting

(***************************************************************************)
(* C17 (Spec): each completion of a list fetch overwrites the stored list  *)
(* wholesale.  When getAllAttendance / getAllDailySalesReports succeeds    *)
(* the stored list becomes exactly the response; when it fails the stored  *)
(* list is left unchanged; in both cases the loading flag is cleared in    *)
(* the step in which that fetch completes.                                 *)
(***************************************************************************)
C17_FetchOverwrites ==
    [][/\ \A r \in accNet : \A o \in Outcomes :
            (Deliver(r, o) /\ r.fn = "getAll")
               => /\ reportHistory' = IF o.reached /\ o.ok /\ o.parseable
                                      THEN r.snap ELSE reportHistory
                  /\ isLoading' = FALSE
       /\ \A r \in hrNet : \A res \in HrResults :
            (HrDeliver(r, res) /\ r.fn = "getAllAttendance")
               => /\ attendanceRecords' = IF res.ok THEN r.snap ELSE attendanceRecords
                  /\ isLoadingAttendance' = FALSE]_vars

\* the list held the new check-in (its re-fetch was answered first) and the
\* older answer of the mount fetch, which lacks it, has replaced the list
C17_Witness ==
    /\ page = "hr"
    /\ attendanceRecords = {2, 3}
    /\ 1 \in hrServer
    /\ ~isLoadingAttendance
    /\ hrNet = {}
    /\ hrToast = "Check-In Recorded"

(***************************************************************************)
(* C18 (SpecAttendance): the attendance register shows exactly the loaded  *)
(* records r such that the staff filter is 'all' or r.staff_id is the      *)
(* selected staff's id, and such that r.date starts with the month filter  *)
(* if one is set, or else equals the date filter if one is set; so with a  *)
(* staff selected no record of another staff member is shown, for every    *)
(* staff id.                                                               *)
(***************************************************************************)
C18_RegisterFilter ==
    page = "attendance" =>
        LET passes(r) ==
                /\ filterStaffId = AllStaff \/ ToStr(r.staff_id) = filterStaffId
                /\ IF filterMonth # <<>>
                   THEN r.date # Null /\ StartsWith(r.date, filterMonth)
                   ELSE filterDate # <<>> => r.date = filterDate
        IN registerData = SelectSeq(loadedRecords, passes)

(***************************************************************************)
(* C20 (SpecAttendance): the register's grouping is a partition of the     *)
(* filtered records that loses nothing.  Every record appears in exactly   *)
(* one date group, records without a date in 'Unknown Date'; the group     *)
(* sizes sum to the number of filtered records; the groups are listed      *)
(* newest date first; within a group the records are ordered by status     *)
(* priority present < late < half_day < leave < absent < other or missing, *)
(* ties broken by staff name ascending.                                    *)
(***************************************************************************)
C20_GroupingPartition ==
    page = "attendance" =>
        LET places(r) == {<<k, n>> \in (1..Len(groupedData)) \X (1..MaxAttendance + 1) :
                             n <= Len(groupedData[k].rows) /\ groupedData[k].rows[n] = r}
            RECURSIVE sizes(_)
            sizes(k) == IF k = 0 THEN 0 ELSE Len(groupedData[k].rows) + sizes(k - 1)
        IN /\ \A i \in 1..Len(registerData) : Cardinality(places(registerData[i])) = 1
           /\ sizes(Len(groupedData)) = Len(registerData)
           /\ \A k \in 1..Len(groupedData) : \A n \in 1..Len(groupedData[k].rows) :
                 LET r == groupedData[k].rows[n]
                 IN /\ r.date = Null <=> groupedData[k].key = UnknownDate
                    /\ r.date = groupedData[k].rows[1].date
                    /\ \A k2 \in 1..Len(groupedData) :
                          k2 # k => groupedData[k2].rows[1].date # r.date
                    /\ n > 1 =>
                          LET q == groupedData[k].rows[n - 1]
                          IN \/ StatusPriority(q.status) < StatusPriority(r.status)
                             \/ /\ StatusPriority(q.status) = StatusPriority(r.status)
                                /\ localeCompare(q.staff_name, r.staff_name) <= 0
           /\ Len(sortedDates) = Len(groupedData)
           /\ \A k \in 1..Len(groupedData) :
                 Cardinality({i \in 1..Len(sortedDates) : sortedDates[i] = groupedData[k].key}) = 1
           /\ \A i, j \in 1..Len(sortedDates) :
                 (i < j /\ sortedDates[i].label = "date" /\ sortedDates[j].label = "date")
                    => sortedDates[i].day > sortedDates[j].day

(***************************************************************************)
(* C19 (SpecOrders): the project list shows exactly the orders that        *)
(* satisfy all active filters: status equals the status filter and         *)
(* category the category filter (both case-insensitive), creator name      *)
(* equals the staff filter, the completion date lies between 00:00:00.000  *)
(* of the from-date and 23:59:59.999 of the to-date (inclusive), and the   *)
(* search term occurs in description, customer name, product name, id or   *)
(* generated id.  A filter that is 'all' or empty excludes nothing, except *)
(* that with a from- or to-date set orders without completion date are     *)
(* excluded.                                                               *)
(***************************************************************************)
C19_ProjectFilter ==
    page = "orders" =>
        LET lower(s) == toLowerCase(s)
            startOf(d) == LET m == ParseDate(d).day * 1440 - localZone
                          IN [day |-> m \div 1440, ms |-> (m % 1440) * 60000]
            endOf(d)   == LET m == ParseDate(d).day * 1440 + 1439 - localZone
                          IN [day |-> m \div 1440, ms |-> (m % 1440) * 60000 + 59999]
            occurs(f)  == f # Null /\ includes(lower(f), lower(searchTerm))
            passes(o)  ==
                /\ statusFilter = AllStaff
                      \/ (o.status # Null /\ lower(o.status) = lower(statusFilter))
                /\ staffFilter = AllStaff \/ o.created_by_staff_name = staffFilter
                /\ projectCategoryFilter = AllStaff
                      \/ (o.category # Null /\ lower(o.category) = lower(projectCategoryFilter))
                /\ (fromDate # <<>> \/ toDate # <<>>) => o.completion_date # Null
                /\ (fromDate # <<>> /\ o.completion_date # Null)
                      => NotAfter(startOf(fromDate), ParseDate(o.completion_date))
                /\ (toDate # <<>> /\ o.completion_date # Null)
                      => NotAfter(ParseDate(o.completion_date), endOf(toDate))
                /\ searchTerm = <<>>
                      \/ occurs(o.description) \/ occurs(o.customer_name)
                      \/ occurs(o.product_name) \/ occurs(o.generated_order_id)
                      \/ includes(ToStr(o.id), searchTerm)
        IN filteredOrders = SelectSeq(orders, passes)

(***************************************************************************)
(* C21 (SpecTime): the two copies of the attendance time encoder agree.    *)
(* For every valid date string and every non-empty valid HH:MM, the edit   *)
(* modal's timeToISO(time) for a record of that date and the manual form's *)
(* getSubmissionDateTime(date, time).toISOString() are the same ISO        *)
(* string.                                                                 *)
(***************************************************************************)
C21_EncodersAgree ==
    tPc \in {"encoded", "decoded"} =>
        /\ tIsoModal = tIsoForm
        /\ tIsoModal \notin {Null, RangeError}
        /\ Len(tIsoModal) = 24

\* both encoders have run on a leap day, in a browser that is not on UTC
C21_Witness ==
    /\ tPc = "encoded"
    /\ tDate = DateString(2024, 2, 29)
    /\ tTime = TimeString(23, 59)
    /\ tzOffset # 0
    /\ tIsoForm = tIsoModal

(***************************************************************************)
(* C22 (SpecLive): every submission eventually releases its busy flag.     *)
(* After handleCheckInSubmit, handleCheckOutSubmit, the edit modal's       *)
(* handleSave and the report form's handleSubmit, the flag it set          *)
(* (isSubmitting / isSaving / the form's isSubmitting) is eventually false *)
(* again, whether the request succeeds, fails, or an exception is thrown   *)
(* while the payload is built.                                             *)
(***************************************************************************)
C22_BusyFlagReleased ==
    /\ isSaving ~> ~isSaving
    /\ isSubmitting ~> ~isSubmitting
    /\ uploadIsSubmitting ~> ~uploadIsSubmitting

(***************************************************************************)
(* C23 (SpecAcc): once no list fetch is in flight, the list the dashboard  *)
(* holds is the response of the most recently issued successful list       *)
(* fetch, also when fetches overlapped and were answered in another order  *)
(* than they were issued.                                                  *)
(***************************************************************************)
C23_LatestFetchShown ==
    (page = "accounts" /\ \A r \in accNet : r.fn # "getAll")
        => reportHistory = fetchLog.data

(***************************************************************************)
(* C24 (SpecHR): in the attendance edit modal a value the user has entered *)
(* (check-in time, check-out time or status) is changed afterwards only by *)
(* further user input: a getAttendanceById response that arrives after the *)
(* user edited a field does not overwrite the edited value.                *)
(***************************************************************************)
C24_EditsSurviveDetails ==
    [][\A r \in hrNet : \A res \in HrResults :
          (/\ r.fn = "getAttendanceById"
           /\ HrDeliver(r, res)
           /\ editingRecord # 0
           /\ editingRecord' = editingRecord)
             => LET shown == AttendanceRecord(editingRecord)
                IN /\ checkInTime # extractTimeForInput(shown.checkin_time)
                         => checkInTime' = checkInTime
                   /\ checkOutTime # extractTimeForInput(shown.checkout_time)
                         => checkOutTime' = checkOutTime
                   /\ status # StatusOrPresent(shown.status) => status' = status]_vars

(***************************************************************************)
(* C25 (SpecHR): Save in the attendance edit modal closes the modal if and *)
(* only if the update request succeeded.  A successful update leaves the   *)
(* modal open and issues the list re-fetch; the modal closes when that     *)
(* re-fetch has settled, and no other response closes it.  An update that  *)
(* returns an error leaves the modal open with the entered values, raises  *)
(* the "Update Failed" toast and issues no re-fetch.                       *)
(***************************************************************************)
C25_SaveClosesOnSuccess ==
    [][\A r \in hrNet : \A res \in HrResults :
          HrDeliver(r, res) =>
              /\ (r.fn = "updateAttendance" /\ res.ok) =>
                     /\ editingRecord' = editingRecord
                     /\ hrToast' = "Record Updated"
                     /\ \E q \in hrNet' :
                            q.fn = "getAllAttendance" /\ q.cont = "save" /\ q.rid = r.rid
              /\ (r.fn = "updateAttendance" /\ ~res.ok) =>
                     /\ editingRecord' = editingRecord
                     /\ <<checkInTime, checkOutTime, status>>' =
                            <<checkInTime, checkOutTime, status>>
                     /\ hrToast' = "Update Failed"
                     /\ hrNet' = hrNet \ {r}
                     /\ attendanceRecords' = attendanceRecords
              /\ (r.fn = "getAllAttendance" /\ r.cont = "save") => editingRecord' = 0
              /\ (editingRecord # 0 /\ editingRecord' = 0) =>
                     r.fn = "getAllAttendance" /\ r.cont = "save"]_vars

\* the update succeeded, the re-fetch it issued has settled and the modal is closed
C25_Witness ==
    /\ page = "hr"
    /\ hrToast = "Record Updated"
    /\ editingRecord = 0
    /\ modalGen = 1
    /\ hrNet = {}
    /\ attendanceRecords # {}

(***************************************************************************)
(* C26 (SpecAcc): no update (PATCH) request is ever issued for a report    *)
(* whose deletion through this dashboard has already succeeded.            *)
(* fetchLog.deleted holds the ids whose delete request was answered with   *)
(* success and that the backend has not stored anew since.                 *)
(***************************************************************************)
C26_NoUpdateAfterDelete ==
    [][\A r \in accNet' \ accNet :
          r.fn = "update" => r.id \notin fetchLog.deleted]_vars

(***************************************************************************)
(* C27 (SpecAcc): a DELETE request for a daily sales report is issued only *)
(* by a delete action whose confirmation prompt the user confirmed; when   *)
(* the user declines, no request is issued, no re-fetch is triggered and   *)
(* the report list is unchanged.                                           *)
(***************************************************************************)
C27_DeleteNeedsConfirm ==
    [][/\ \A r \in accNet' \ accNet :
              (r.fn = "delete" /\ r.st = "sent") => handleDeleteReport(r.id, TRUE)
       /\ \A id \in ReportIds :
              handleDeleteReport(id, FALSE) =>
                  /\ accNet' = accNet
                  /\ accFetches' = accFetches
                  /\ isLoading' = isLoading
                  /\ reportHistory' = reportHistory
                  /\ server' = server]_vars

\* a confirmed delete has put its DELETE request on the wire
C27_Witness ==
    /\ page = "accounts"
    /\ \E r \in accNet : r.fn = "delete" /\ r.st = "sent" /\ r.id \in reportHistory

(***************************************************************************)
(* C28 (SpecAttendance): the month filter and the specific-date filter of  *)
(* the HR register are never both non-empty: choosing a month clears the   *)
(* date, choosing a date clears the month, and Clear resets month, date    *)
(* and staff filter together.  isFilterActive is true exactly when one of  *)
(* the three filters differs from its default, and with no filter active   *)
(* (so after Clear) the register shows all loaded records.                 *)
(***************************************************************************)
C28_FilterExclusion ==
    /\ [](page = "attendance" =>
            /\ ~(filterMonth # <<>> /\ filterDate # <<>>)
            /\ isFilterActive <=> <<filterMonth, filterDate, filterStaffId>> # <<<<>>, <<>>, AllStaff>>
            /\ ~isFilterActive => registerData = loadedRecords)
    /\ [][/\ \A v \in MonthFilters \ {<<>>} : setFilterMonth(v) => filterDate' = <<>>
          /\ \A v \in DayFilters \ {<<>>} : setFilterDate(v) => filterMonth' = <<>>
          /\ clearAttendanceFilters =>
                 /\ <<filterMonth, filterDate, filterStaffId>>' = <<<<>>, <<>>, AllStaff>>
                 /\ ~isFilterActive'
                 /\ registerData' = loadedRecords]_vars

\* a month is chosen, the date filter is empty and the register is narrowed
C28_Witness ==
    /\ page = "attendance"
    /\ filterMonth # <<>>
    /\ filterDate = <<>>
    /\ filterStaffId # AllStaff
    /\ Len(registerData) < Len(loadedRecords)

C30_NoFilterShowsAll ==
    (/\ page = "orders"
     /\ searchTerm = <<>>
     /\ statusFilter = AllStaff
     /\ staffFilter = AllStaff
     /\ projectCategoryFilter = AllStaff
     /\ fromDate = <<>>
     /\ toDate = <<>>)
        => filteredOrders = orders

====
